---- MODULE Spec2Model ----
(***************************************************************************)
(* A model of the business-query module (src/business_queries.py): the     *)
(* keyword extractor, the entity resolvers, the query-library templates    *)
(* and the question classifier, over a relational store whose columns are  *)
(* all text.                                                               *)
(*                                                                         *)
(* Text is a TLA+ string (TLC gives Len, \o and SubSeq on strings).  A     *)
(* table is a sequence of rows in rowid order; a row is a record of text   *)
(* columns plus the set "nulls" of its columns that hold SQL NULL.         *)
(* Amounts are fixed-point integers in hundredths (paise): the texts drawn *)
(* have at most two fractional digits, so sums are exact.                  *)
(***************************************************************************)
EXTENDS Integers, Sequences, FiniteSets, TLC

VARIABLES db, today, call, ret, templates, queries

vars == <<db, today, call, ret, templates, queries>>

----------------------------------------------------------------------------
(* Text primitives: str.upper / str.lower / str.strip / "in" / split.      *)

LowerAlpha == "abcdefghijklmnopqrstuvwxyz"

UpperAlpha == "ABCDEFGHIJKLMNOPQRSTUVWXYZ"

Digits == "0123456789"

CharAt(s, i) == SubSeq(s, i, i)

\* 0 when c does not occur in alphabet, else its first position.
IndexIn(alphabet, c) ==
    IF \E i \in 1..Len(alphabet) : CharAt(alphabet, i) = c
    THEN CHOOSE i \in 1..Len(alphabet) : CharAt(alphabet, i) = c
    ELSE 0

\* str.upper / str.lower of the ASCII letters, as tables.
UpperMap == [c \in {CharAt(LowerAlpha, i) : i \in 1..26} |->
                CharAt(UpperAlpha, IndexIn(LowerAlpha, c))]

LowerMap == [c \in {CharAt(UpperAlpha, i) : i \in 1..26} |->
                CharAt(LowerAlpha, IndexIn(UpperAlpha, c))]

UpperChar(c) == IF c \in DOMAIN UpperMap THEN UpperMap[c] ELSE c

LowerChar(c) == IF c \in DOMAIN LowerMap THEN LowerMap[c] ELSE c

RECURSIVE Upper(_)
Upper(s) ==
    IF s = "" THEN "" ELSE UpperChar(CharAt(s, 1)) \o Upper(SubSeq(s, 2, Len(s)))

RECURSIVE Lower(_)
Lower(s) ==
    IF s = "" THEN "" ELSE LowerChar(CharAt(s, 1)) \o Lower(SubSeq(s, 2, Len(s)))

\* Python's "p in s".
Contains(s, p) ==
    \E i \in 1..(Len(s) - Len(p) + 1) : SubSeq(s, i, i + Len(p) - 1) = p

StartsWith(s, p) == Len(p) <= Len(s) /\ SubSeq(s, 1, Len(p)) = p

DigitMap == [c \in {CharAt(Digits, i) : i \in 1..10} |-> IndexIn(Digits, c) - 1]

IsDigit(c) == c \in DOMAIN DigitMap

DigitVal(c) == DigitMap[c]

\* The whitespace str.strip() removes, within the characters drawn here.
IsSpace(c) == c = " "

RECURSIVE LStrip(_)
LStrip(s) ==
    IF s # "" /\ IsSpace(CharAt(s, 1)) THEN LStrip(SubSeq(s, 2, Len(s))) ELSE s

RECURSIVE RStrip(_)
RStrip(s) ==
    IF s # "" /\ IsSpace(CharAt(s, Len(s))) THEN RStrip(SubSeq(s, 1, Len(s) - 1)) ELSE s

Strip(s) == RStrip(LStrip(s))

RECURSIVE RemoveChar(_, _)
RemoveChar(s, c) ==
    IF s = "" THEN ""
    ELSE (IF CharAt(s, 1) = c THEN "" ELSE CharAt(s, 1)) \o RemoveChar(SubSeq(s, 2, Len(s)), c)

\* s.split(" ")[0]: the text before the first space.
RECURSIVE BeforeSpace(_)
BeforeSpace(s) ==
    IF s = "" \/ CharAt(s, 1) = " " THEN ""
    ELSE CharAt(s, 1) \o BeforeSpace(SubSeq(s, 2, Len(s)))

AllDigits(s) == \A i \in 1..Len(s) : IsDigit(CharAt(s, i))

RECURSIVE DigitsVal(_)
DigitsVal(s) ==
    IF s = "" THEN 0
    ELSE 10 * DigitsVal(SubSeq(s, 1, Len(s) - 1)) + DigitVal(CharAt(s, Len(s)))

----------------------------------------------------------------------------
(* Python values: None, and the truthiness of an optional text.            *)

None == [kind |-> "None"]

Txt(s) == [kind |-> "str", text |-> s]

IsNone(v) == v.kind = "None"

\* "if v:" / "if not v:" for an Optional[str].
Truthy(v) == v.kind = "str" /\ v.text # ""

\* A column of a row as a Python value: None for SQL NULL.
Col(row, c) == IF c \in row.nulls THEN None ELSE Txt(row[c])

----------------------------------------------------------------------------
(* Numeric parsing.  Values are integers in hundredths.                    *)

\* The longest prefix of s made of digits.
RECURSIVE DigitPrefix(_)
DigitPrefix(s) ==
    IF s # "" /\ IsDigit(CharAt(s, 1))
    THEN CharAt(s, 1) \o DigitPrefix(SubSeq(s, 2, Len(s)))
    ELSE ""

\* The value, in hundredths, of the fraction digits f (the digits after the
\* second are beyond the fixed-point resolution; no drawn text has them).
FracVal(f) ==
    IF Len(f) = 0 THEN 0
    ELSE IF Len(f) = 1 THEN 10 * DigitVal(CharAt(f, 1))
    ELSE 10 * DigitVal(CharAt(f, 1)) + DigitVal(CharAt(f, 2))

\* A local variable of the Python code (x = value, then the rest of the
\* function): rest is evaluated with value bound to its parameter, so the
\* value is computed once however often the rest reads it.
Bind(value, rest(_)) == rest(value)

\* The longest numeric prefix of s: [sign] digits [. digits], at least one
\* digit.  used is the number of characters it takes (0: none).
NumPrefix(s) ==
    LET hasSign == s # "" /\ CharAt(s, 1) \in {"-", "+"}
        neg     == s # "" /\ CharAt(s, 1) = "-"
        body    == IF hasSign THEN SubSeq(s, 2, Len(s)) ELSE s
    IN  Bind(DigitPrefix(body), LAMBDA ip :
        Bind(SubSeq(body, Len(ip) + 1, Len(body)), LAMBDA rest :
        Bind(rest # "" /\ CharAt(rest, 1) = ".", LAMBDA hasDot :
        Bind(IF hasDot THEN DigitPrefix(SubSeq(rest, 2, Len(rest))) ELSE "", LAMBDA fp :
        Bind(Len(ip) + Len(fp) > 0, LAMBDA ok :
        Bind(100 * DigitsVal(ip) + FracVal(fp), LAMBDA mag :
            [ok   |-> ok,
             val  |-> IF ok THEN (IF neg THEN 0 - mag ELSE mag) ELSE 0,
             used |-> IF ok
                      THEN (IF hasSign THEN 1 ELSE 0) + Len(ip)
                               + (IF hasDot THEN 1 + Len(fp) ELSE 0)
                      ELSE 0]))))))

\* float(text): the whole text, stripped, must be a number; ok = FALSE models
\* ValueError.
PyFloat(text) ==
    Bind(Strip(text), LAMBDA t :
    Bind(NumPrefix(t), LAMBDA p :
        IF t # "" /\ p.ok /\ p.used = Len(t) THEN [ok |-> TRUE, val |-> p.val]
        ELSE [ok |-> FALSE, val |-> 0]))

Num(n) == [kind |-> "num", val |-> n]

\* _safe_float applied to a column value (None or text) or to a float an
\* aggregate returned (str(x) of a float parses back to x).
SafeFloat(value) ==
    IF IsNone(value) THEN 0
    ELSE IF value.kind = "num" THEN value.val
    ELSE Bind(RemoveChar(Strip(value.text), ","), LAMBDA text :
             IF text = "" THEN 0
             ELSE Bind(PyFloat(text), LAMBDA f : IF f.ok THEN f.val ELSE 0))

\* SQL CAST(REPLACE(TRIM(x), ',', '') AS REAL) of a non-NULL text: the
\* longest numeric prefix after leading blanks, 0.0 when there is none.
SqlCastReal(text) ==
    NumPrefix(LStrip(RemoveChar(Strip(text), ","))).val

RECURSIVE SeqSum(_)
SeqSum(ns) == IF ns = <<>> THEN 0 ELSE Head(ns) + SeqSum(Tail(ns))

\* SQL SUM(CAST(REPLACE(TRIM(col), ',', '') AS REAL)) over rows: NULLs are
\* skipped, and the sum of no value is NULL (None).
SqlSumCast(rows, c) ==
    Bind(SelectSeq(rows, LAMBDA r : c \notin r.nulls), LAMBDA nonNull :
        IF nonNull = <<>> THEN None
        ELSE Num(SeqSum([i \in 1..Len(nonNull) |-> SqlCastReal(nonNull[i][c])])))

----------------------------------------------------------------------------
(* Formatting.                                                             *)

\* The literal prefix of format_currency's f-string.  The source file holds
\* the three characters U+00E2 U+201A U+00B9 there; each is written here by
\* its code point, in ASCII.
CURRENCY_PREFIX == "<U+00E2><U+201A><U+00B9>"

PadLeft(s, width) == IF Len(s) >= width THEN s ELSE SubSeq("0000", 1, width - Len(s)) \o s

RECURSIVE Grouped(_)
Grouped(n) ==
    IF n < 1000 THEN ToString(n)
    ELSE Grouped(n \div 1000) \o "," \o PadLeft(ToString(n % 1000), 3)

\* f"{x:,.2f}" of the amount of n hundredths.
FormatFixed2(n) ==
    LET mag == IF n < 0 THEN 0 - n ELSE n
    IN  (IF n < 0 THEN "-" ELSE "") \o Grouped(mag \div 100) \o "."
            \o PadLeft(ToString(mag % 100), 2)

FormatCurrency(amount) == CURRENCY_PREFIX \o FormatFixed2(amount)

----------------------------------------------------------------------------
(* Dates: datetime.date as [y, m, d], compared by proleptic ordinal.       *)

IsLeap(y) == (y % 4 = 0) /\ ((y % 100 # 0) \/ (y % 400 = 0))

DaysInMonth(y, m) ==
    IF m = 2 THEN (IF IsLeap(y) THEN 29 ELSE 28)
    ELSE IF m \in {4, 6, 9, 11} THEN 30 ELSE 31

RECURSIVE DaysBeforeMonth(_, _)
DaysBeforeMonth(y, m) ==
    IF m <= 1 THEN 0 ELSE DaysBeforeMonth(y, m - 1) + DaysInMonth(y, m - 1)

\* date.toordinal(): 1 for 0001-01-01.
ToOrdinal(dt) ==
    LET y1 == dt.y - 1
    IN  365 * y1 + (y1 \div 4) - (y1 \div 100) + (y1 \div 400)
          + DaysBeforeMonth(dt.y, dt.m) + dt.d

\* date.fromisoformat on the form YYYY-MM-DD; ok = FALSE models ValueError.
FromIsoFormat(s) ==
    LET shaped == /\ Len(s) = 10
                  /\ CharAt(s, 5) = "-" /\ CharAt(s, 8) = "-"
                  /\ AllDigits(SubSeq(s, 1, 4))
                  /\ AllDigits(SubSeq(s, 6, 7))
                  /\ AllDigits(SubSeq(s, 9, 10))
        y == DigitsVal(SubSeq(s, 1, 4))
        m == DigitsVal(SubSeq(s, 6, 7))
        d == DigitsVal(SubSeq(s, 9, 10))
    IN  IF shaped /\ y >= 1 /\ m \in 1..12 /\ d >= 1 /\ d <= DaysInMonth(y, m)
        THEN [ok |-> TRUE, y |-> y, m |-> m, d |-> d]
        ELSE [ok |-> FALSE, y |-> 0, m |-> 0, d |-> 0]

\* date.isoformat().
IsoFormat(dt) ==
    PadLeft(ToString(dt.y), 4) \o "-" \o PadLeft(ToString(dt.m), 2) \o "-"
        \o PadLeft(ToString(dt.d), 2)

----------------------------------------------------------------------------
(* Keyword extractor and LIKE.                                             *)

\* Mutant of IsKeywordChar: the underscore counts as a keyword character, as
\* it does in the class \w.
IsKeywordChar_Underscore(c) == c \in DOMAIN LowerMap \/ IsDigit(c) \/ c \in {"&", "_"}

IsKeywordChar(c) == c \in DOMAIN LowerMap \/ IsDigit(c) \/ c = "&"

\* re.findall(r"[A-Z0-9&]+", u): the maximal runs, left to right.  cur is
\* the run being read.
RECURSIVE FindRuns(_, _)
FindRuns(u, cur) ==
    IF u = "" THEN (IF cur = "" THEN <<>> ELSE <<cur>>)
    ELSE IF IsKeywordChar(CharAt(u, 1))
         THEN FindRuns(SubSeq(u, 2, Len(u)), cur \o CharAt(u, 1))
         ELSE (IF cur = "" THEN <<>> ELSE <<cur>>) \o FindRuns(SubSeq(u, 2, Len(u)), "")

\* _extract_keywords of an Optional[str].
ExtractKeywords(text) ==
    IF ~Truthy(text) THEN <<>>
    ELSE LET runs == FindRuns(Upper(text.text), "")
         IN  [i \in 1..Len(runs) |-> Upper(runs[i])]

\* UPPER(col) LIKE '%kw%' for a column value: NULL never matches; LIKE
\* folds ASCII case.
\* Mutant of Like: the column must equal the keyword, not contain it.
Like_Exact(value, kw) == ~IsNone(value) /\ Upper(value.text) = Upper(kw)

Like(value, kw) == ~IsNone(value) /\ Contains(Upper(value.text), Upper(kw))

----------------------------------------------------------------------------
(* The store and _run_query.  A template returns [value, queries]: what    *)
(* the Python function returns, and the statements it handed to            *)
(* _run_query, in order, each with the tables of its FROM clause, the rows *)
(* _run_query returned for it, whether a connection was opened for it and  *)
(* what executing it raised.                                               *)

DbExists == db.exists

\* Mutant of Connects: the guard of _run_query is gone, a connection is
\* opened for every statement.
Connects_Always == TRUE

\* _run_query reaches sqlite3.connect only past "if not _db_exists()".
Connects == DbExists

\* What cur.execute raises on the connection: in a database without tables
\* (a file nothing was converted into, or the empty database sqlite3.connect
\* creates on a path without a file) every statement fails with "no such
\* table" (sqlite3.OperationalError); the tables of a store the conversion
\* job wrote are all there.
ExecuteError == IF Connects /\ ~db.tables THEN "OperationalError" ELSE "none"

\* Mutant of RunEvents: conn.close() follows fetchall and is not in a
\* finally clause.
RunEvents_NoFinally ==
    IF ~Connects THEN <<>>
    ELSE IF ExecuteError # "none" THEN <<"connect", "execute", "raise">>
    ELSE <<"connect", "execute", "fetchall", "close", "return">>

\* What _run_query does to its connection for one statement, in order:
\* nothing without a store file; else connect, execute, fetchall unless
\* execute raised, and close in the finally clause before the rows are
\* returned or the exception leaves.
RunEvents ==
    IF ~Connects THEN <<>>
    ELSE IF ExecuteError # "none" THEN <<"connect", "execute", "close", "raise">>
    ELSE <<"connect", "execute", "fetchall", "close", "return">>

Query(from, rows) ==
    [from |-> from, rows |-> rows, connected |-> Connects, error |-> ExecuteError,
     events |-> RunEvents]

\* An exception that leaves a function.
Raised(exc) == [kind |-> "raise", exc |-> exc]

\* What the caller gets from a function that ran the statements qs and would
\* return value: _run_query has try/finally and no except, and nothing
\* above it catches, so the first statement that raises ends the call.
Outcome(value, qs) ==
    IF \E i \in 1..Len(qs) : qs[i].error # "none"
    THEN Raised(qs[CHOOSE i \in 1..Len(qs) :
                     /\ qs[i].error # "none"
                     /\ \A j \in 1..(i - 1) : qs[j].error = "none"].error)
    ELSE value

\* The store after the statements qs.  Every statement is a SELECT and
\* leaves the tables as they are; sqlite3.connect creates the file when
\* there is none.
StoreAfter(qs) ==
    [db EXCEPT !.exists = @ \/ \E i \in 1..Len(qs) : qs[i].connected]

\* _run_query: the rows the statement selects, or [] without a store file.
RunQuery(selected) == IF DbExists THEN selected ELSE <<>>

RECURSIVE Flatten(_)
Flatten(ss) == IF ss = <<>> THEN <<>> ELSE Head(ss) \o Flatten(Tail(ss))

\* left JOIN right ON left.lc = right.rc, as [l, r] pairs, left table outer.
\* NULL equals nothing.
JoinRows(left, right, lc, rc) ==
    Flatten([i \in 1..Len(left) |->
        LET l == left[i]
            hit == SelectSeq(right, LAMBDA r :
                       lc \notin l.nulls /\ rc \notin r.nulls /\ l[lc] = r[rc])
        IN  [j \in 1..Len(hit) |-> [l |-> l, r |-> hit[j]]]])

\* The values of a sequence, without the falsy ones (None and ""), as texts.
TruthyTexts(vals) ==
    LET kept == SelectSeq(vals, Truthy) IN [i \in 1..Len(kept) |-> kept[i].text]

RECURSIVE JoinTexts(_, _)
JoinTexts(texts, sep) ==
    IF texts = <<>> THEN ""
    ELSE IF Len(texts) = 1 THEN texts[1]
    ELSE texts[1] \o sep \o JoinTexts(Tail(texts), sep)

\* ", ".join(filter(None, [city, state])) or "(Unknown)"
LocationOf(city, state) ==
    LET joined == JoinTexts(TruthyTexts(<<city, state>>), ", ")
    IN  IF joined = "" THEN "(Unknown)" ELSE joined

\* Mutant of LikeAll: only the first keyword's clause is built.
LikeAll_FirstOnly(value, keywords) == keywords # <<>> => Like(value, keywords[1])

\* Mutant of LikeAll: the clauses are joined by OR.
LikeAll_Any(value, keywords) == \E i \in 1..Len(keywords) : Like(value, keywords[i])

\* every keyword LIKE-matches the column (AND of LIKE).
LikeAll(value, keywords) == \A i \in 1..Len(keywords) : Like(value, keywords[i])

\* Mutant of LikeAny: the clauses are joined by AND.
LikeAny_All(value, keywords) == \A i \in 1..Len(keywords) : Like(value, keywords[i])

\* some keyword LIKE-matches the column (OR of LIKE).
LikeAny(value, keywords) == \E i \in 1..Len(keywords) : Like(value, keywords[i])

\* The values of a sequence as a set.
Range(seq) == {seq[i] : i \in 1..Len(seq)}

\* SELECT DISTINCT: the first occurrence of each value, in scan order.
RECURSIVE Distinct(_)
Distinct(vals) ==
    IF vals = <<>> THEN <<>>
    ELSE LET front == Distinct(SubSeq(vals, 1, Len(vals) - 1))
             last  == vals[Len(vals)]
         IN  IF last \in Range(front) THEN front ELSE Append(front, last)

----------------------------------------------------------------------------
(* Query library.                                                          *)

get_company_outstanding(company_name, include_negative) ==
    Bind(ExtractKeywords(Txt(company_name)), LAMBDA keywords :
      IF keywords = <<>> THEN [value |-> <<>>, queries |-> <<>>]
      ELSE
        Bind(RunQuery(SelectSeq(db.AMAS, LAMBDA r : LikeAll(Col(r, "ANAM"), keywords))),
             LAMBDA rows :
        Bind(SelectSeq(rows, LAMBDA r :
                 ~(~include_negative /\ SafeFloat(Col(r, "BALANCE")) <= 0)), LAMBDA kept :
          [value |-> [i \in 1..Len(kept) |->
                        [company  |-> Col(kept[i], "ANAM"),
                         location |-> LocationOf(Col(kept[i], "CITY"), Col(kept[i], "STATE")),
                         balance  |-> SafeFloat(Col(kept[i], "BALANCE"))]],
           queries |-> <<Query("AMAS", rows)>>])))

\* The rows get_state_outstanding's statement selects.
StateRows(keywords) ==
    RunQuery(SelectSeq(db.AMAS, LAMBDA r : LikeAll(Col(r, "STATE"), keywords)))

\* Mutant of StateTotal: include_negative is ignored, the balances are
\* summed as they are.
StateTotal_RawSum(rows, include_negative) ==
    SeqSum([i \in 1..Len(rows) |-> SafeFloat(Col(rows[i], "BALANCE"))])

\* The loop of get_state_outstanding over the selected rows.
RECURSIVE StateTotal(_, _)
StateTotal(rows, include_negative) ==
    IF rows = <<>> THEN 0
    ELSE LET init    == SubSeq(rows, 1, Len(rows) - 1)
             balance == SafeFloat(Col(rows[Len(rows)], "BALANCE"))
         IN  IF include_negative
             THEN StateTotal(init, include_negative) + balance
             ELSE StateTotal(init, include_negative) + (IF balance > 0 THEN balance ELSE 0)

get_state_outstanding(state, include_negative) ==
    Bind(ExtractKeywords(Txt(state)), LAMBDA keywords :
      IF keywords = <<>> THEN [value |-> 0, queries |-> <<>>]
      ELSE Bind(StateRows(keywords), LAMBDA rows :
             [value   |-> StateTotal(rows, include_negative),
              queries |-> <<Query("AMAS", rows)>>]))

\* Mutant of ItemMatches: one column has to hold all the keywords.
ItemMatches_OneColumn(r, keywords) ==
    \/ \A i \in 1..Len(keywords) : Like(Col(r, "IALIAS"), keywords[i])
    \/ \A i \in 1..Len(keywords) : Like(Col(r, "ICIMAS"), keywords[i])

\* (UPPER(IALIAS) LIKE ? OR UPPER(ICIMAS) LIKE ?) for every keyword.
ItemMatches(r, keywords) ==
    \A i \in 1..Len(keywords) :
        Like(Col(r, "IALIAS"), keywords[i]) \/ Like(Col(r, "ICIMAS"), keywords[i])

\* Mutant of find_item_codes: no early return for a phrase without keywords,
\* whose empty conjunction every row satisfies.
find_item_codes_NoGuard(pattern) ==
    Bind(ExtractKeywords(Txt(pattern)), LAMBDA keywords :
    Bind(SelectSeq(db.IMAS, LAMBDA r : ItemMatches(r, keywords)), LAMBDA hit :
    Bind(RunQuery(Distinct([i \in 1..Len(hit) |-> Col(hit[i], "ICIMAS")])), LAMBDA rows :
      [value |-> TruthyTexts(rows), queries |-> <<Query("IMAS", rows)>>])))

find_item_codes(pattern) ==
    Bind(ExtractKeywords(Txt(pattern)), LAMBDA keywords :
      IF keywords = <<>> THEN [value |-> <<>>, queries |-> <<>>]
      ELSE
        Bind(SelectSeq(db.IMAS, LAMBDA r : ItemMatches(r, keywords)), LAMBDA hit :
        Bind(RunQuery(Distinct([i \in 1..Len(hit) |-> Col(hit[i], "ICIMAS")])), LAMBDA rows :
          [value |-> TruthyTexts(rows), queries |-> <<Query("IMAS", rows)>>])))

find_account_codes(pattern) ==
    Bind(ExtractKeywords(Txt(pattern)), LAMBDA keywords :
      IF keywords = <<>> THEN [value |-> <<>>, queries |-> <<>>]
      ELSE
        Bind(RunQuery(SelectSeq(db.AMAS, LAMBDA r : LikeAll(Col(r, "ANAM"), keywords))),
             LAMBDA rows :
          [value   |-> TruthyTexts([i \in 1..Len(rows) |-> Col(rows[i], "ACOD")]),
           queries |-> <<Query("AMAS", rows)>>]))

\* col IN (codes): NULL is in no list.
InCodes(r, c, codes) == c \notin r.nulls /\ r[c] \in Range(codes)

\* The one row of an aggregate SELECT without GROUP BY, or [] without a
\* store file.
AggregateRow(row) == RunQuery(<<row>>)

\* Mutant of get_purchase_summary: a vendor phrase that resolves no account
\* key is not a reason to return, and the statement is then run without the
\* vendor condition.
get_purchase_summary_NoVendorGuard(item_pattern, vendor_pattern, year) ==
    Bind(find_item_codes(item_pattern), LAMBDA items :
      IF items.value = <<>> THEN [value |-> None, queries |-> items.queries]
      ELSE
        Bind(Truthy(vendor_pattern), LAMBDA useVendor :
        Bind(IF useVendor THEN find_account_codes(vendor_pattern.text)
             ELSE [value |-> <<>>, queries |-> <<>>], LAMBDA accounts :
          IF FALSE
          THEN [value |-> None, queries |-> items.queries \o accounts.queries]
          ELSE
            Bind(SelectSeq(JoinRows(db.SITM, db.PRCH, "VHNO", "VHNO"), LAMBDA p :
                   /\ "VHTY" \notin p.l.nulls /\ p.l.VHTY = "Prch"
                   /\ InCodes(p.l, "ICSITM", items.value)
                   /\ (accounts.value # <<>> => InCodes(p.r, "VCPRCH", accounts.value))
                   /\ (Truthy(year) =>
                         /\ "BDPRCH" \notin p.r.nulls
                         /\ StartsWith(Upper(p.r.BDPRCH), Upper(year.text)))), LAMBDA hit :
            Bind([i \in 1..Len(hit) |-> hit[i].l], LAMBDA lines :
            Bind(AggregateRow([total_qty |-> SqlSumCast(lines, "IQSITM"),
                               total_amt |-> SqlSumCast(lines, "IASITM")]), LAMBDA rows :
            Bind(items.queries \o accounts.queries \o <<Query("SITM JOIN PRCH", rows)>>,
                 LAMBDA qs :
              IF rows = <<>> THEN [value |-> None, queries |-> qs]
              ELSE [value |-> [kind   |-> "dict",
                               item   |-> item_pattern,
                               vendor |-> vendor_pattern,
                               year   |-> year,
                               qty    |-> SafeFloat(rows[1].total_qty),
                               amount |-> SafeFloat(rows[1].total_amt)],
                    queries |-> qs])))))))

get_purchase_summary(item_pattern, vendor_pattern, year) ==
    Bind(find_item_codes(item_pattern), LAMBDA items :
      IF items.value = <<>> THEN [value |-> None, queries |-> items.queries]
      ELSE
        Bind(Truthy(vendor_pattern), LAMBDA useVendor :
        Bind(IF useVendor THEN find_account_codes(vendor_pattern.text)
             ELSE [value |-> <<>>, queries |-> <<>>], LAMBDA accounts :
          IF useVendor /\ accounts.value = <<>>
          THEN [value |-> None, queries |-> items.queries \o accounts.queries]
          ELSE
            Bind(SelectSeq(JoinRows(db.SITM, db.PRCH, "VHNO", "VHNO"), LAMBDA p :
                   /\ "VHTY" \notin p.l.nulls /\ p.l.VHTY = "Prch"
                   /\ InCodes(p.l, "ICSITM", items.value)
                   /\ (useVendor => InCodes(p.r, "VCPRCH", accounts.value))
                   /\ (Truthy(year) =>
                         /\ "BDPRCH" \notin p.r.nulls
                         /\ StartsWith(Upper(p.r.BDPRCH), Upper(year.text)))), LAMBDA hit :
            Bind([i \in 1..Len(hit) |-> hit[i].l], LAMBDA lines :
            Bind(AggregateRow([total_qty |-> SqlSumCast(lines, "IQSITM"),
                               total_amt |-> SqlSumCast(lines, "IASITM")]), LAMBDA rows :
            Bind(items.queries \o accounts.queries \o <<Query("SITM JOIN PRCH", rows)>>,
                 LAMBDA qs :
              IF rows = <<>> THEN [value |-> None, queries |-> qs]
              ELSE [value |-> [kind   |-> "dict",
                               item   |-> item_pattern,
                               vendor |-> vendor_pattern,
                               year   |-> year,
                               qty    |-> SafeFloat(rows[1].total_qty),
                               amount |-> SafeFloat(rows[1].total_amt)],
                    queries |-> qs])))))))

\* Printable ASCII characters in code-point order (the double quote, the
\* backslash and the backquote left out): the BINARY collation of ORDER BY on
\* the texts drawn here.
Collation ==
    " !#$%&'()*+,-./0123456789:;<=>?@ABCDEFGHIJKLMNOPQRSTUVWXYZ[]^_abcdefghijklmnopqrstuvwxyz{|}~"

RECURSIVE TextLess(_, _)
TextLess(a, b) ==
    IF b = "" THEN FALSE
    ELSE IF a = "" THEN TRUE
    ELSE LET ca == IndexIn(Collation, CharAt(a, 1))
             cb == IndexIn(Collation, CharAt(b, 1))
         IN  IF ca # cb THEN ca < cb
             ELSE TextLess(SubSeq(a, 2, Len(a)), SubSeq(b, 2, Len(b)))

\* A finite set of texts in ascending order.
RECURSIVE SortedTexts(_)
SortedTexts(S) ==
    IF S = {} THEN <<>>
    ELSE LET least == CHOOSE t \in S : \A u \in S \ {t} : TextLess(t, u)
         IN  <<least>> \o SortedTexts(S \ {least})

\* Mutant of MonthStr: the month is not padded to two digits.
MonthStr_Unpadded(month) == ToString(month)

\* f"{month:02d}" for month >= 0.
MonthStr(month) == PadLeft(ToString(month), 2)

\* SUBSTR(col, from, n) = text: NULL equals nothing.
SubstrIs(r, c, from, n, text) ==
    c \notin r.nulls /\ SubSeq(r[c], from, IF Len(r[c]) < from + n - 1 THEN Len(r[c]) ELSE from + n - 1) = text

get_sales_for_month(month) ==
    Bind(SelectSeq(db.SALE, LAMBDA r : SubstrIs(r, "BDSALE", 6, 2, MonthStr(month))),
         LAMBDA hit :
    Bind(SortedTexts({SubSeq(hit[i].BDSALE, 1, 4) : i \in 1..Len(hit)}), LAMBDA years :
    Bind(RunQuery([k \in 1..Len(years) |->
             [year |-> Txt(years[k]),
              total_amount |-> SqlSumCast(
                  SelectSeq(hit, LAMBDA r : SubSeq(r.BDSALE, 1, 4) = years[k]),
                  "TOTAL1")]]), LAMBDA rows :
    Bind(SelectSeq(rows, LAMBDA row : Truthy(row.year)), LAMBDA kept :
      [value   |-> [i \in 1..Len(kept) |->
                      [year |-> kept[i].year.text, amount |-> SafeFloat(kept[i].total_amount)]],
       queries |-> <<Query("SALE", rows)>>]))))

\* Mutant of get_expense_amount: the month is tested against None, so that
\* a month of 0 restricts the lines as well.
get_expense_amount_MonthZero(keyword, location, month) ==
    Bind(ExtractKeywords(Txt(keyword)), LAMBDA keywords :
      IF keywords = <<>> THEN [value |-> 0, queries |-> <<>>]
      ELSE
        Bind(IF Truthy(location) THEN ExtractKeywords(location) ELSE <<>>,
             LAMBDA loc_keywords :
        Bind(~IsNone(month), LAMBDA useMonth :
        Bind(SelectSeq(JoinRows(db.TMAS, db.AMAS, "COD1", "ACOD"), LAMBDA p :
               /\ LikeAny(Col(p.r, "ANAM"), keywords)
               /\ (loc_keywords # <<>> =>
                     \E i \in 1..Len(loc_keywords) :
                         \/ Like(Col(p.r, "CITY"), loc_keywords[i])
                         \/ Like(Col(p.r, "STATE"), loc_keywords[i]))
               /\ (useMonth => SubstrIs(p.l, "DATE", 6, 2, MonthStr(month.val)))),
             LAMBDA hit :
        Bind(AggregateRow([amount |->
                 SqlSumCast([i \in 1..Len(hit) |-> hit[i].l], "AMNT")]), LAMBDA rows :
          IF rows = <<>> THEN [value |-> 0, queries |-> <<Query("TMAS JOIN AMAS", rows)>>]
          ELSE [value   |-> SafeFloat(rows[1].amount),
                queries |-> <<Query("TMAS JOIN AMAS", rows)>>])))))

\* month is an Optional[int]: None, or Num(m).
get_expense_amount(keyword, location, month) ==
    Bind(ExtractKeywords(Txt(keyword)), LAMBDA keywords :
      IF keywords = <<>> THEN [value |-> 0, queries |-> <<>>]
      ELSE
        Bind(IF Truthy(location) THEN ExtractKeywords(location) ELSE <<>>,
             LAMBDA loc_keywords :
        Bind(~IsNone(month) /\ month.val # 0, LAMBDA useMonth :
        Bind(SelectSeq(JoinRows(db.TMAS, db.AMAS, "COD1", "ACOD"), LAMBDA p :
               /\ LikeAny(Col(p.r, "ANAM"), keywords)
               /\ (loc_keywords # <<>> =>
                     \E i \in 1..Len(loc_keywords) :
                         \/ Like(Col(p.r, "CITY"), loc_keywords[i])
                         \/ Like(Col(p.r, "STATE"), loc_keywords[i]))
               /\ (useMonth => SubstrIs(p.l, "DATE", 6, 2, MonthStr(month.val)))),
             LAMBDA hit :
        Bind(AggregateRow([amount |->
                 SqlSumCast([i \in 1..Len(hit) |-> hit[i].l], "AMNT")]), LAMBDA rows :
          IF rows = <<>> THEN [value |-> 0, queries |-> <<Query("TMAS JOIN AMAS", rows)>>]
          ELSE [value   |-> SafeFloat(rows[1].amount),
                queries |-> <<Query("TMAS JOIN AMAS", rows)>>])))))

get_inventory_for_location(item_pattern, location_pattern) ==
    Bind(find_item_codes(item_pattern), LAMBDA items :
      IF items.value = <<>> THEN [value |-> None, queries |-> items.queries]
      ELSE
        Bind(ExtractKeywords(Txt(location_pattern)), LAMBDA loc_keywords :
          IF loc_keywords = <<>> THEN [value |-> None, queries |-> items.queries]
          ELSE
            Bind(RunQuery(SelectSeq(db.DEPT,
                     LAMBDA r : LikeAny(Col(r, "DNDEPT"), loc_keywords))), LAMBDA dept_rows :
            Bind(TruthyTexts([i \in 1..Len(dept_rows) |-> Col(dept_rows[i], "DCDEPT")]),
                 LAMBDA dept_codes :
            Bind(items.queries \o <<Query("DEPT", dept_rows)>>, LAMBDA q2 :
              IF dept_codes = <<>> THEN [value |-> None, queries |-> q2]
              ELSE
                Bind(SelectSeq(db.DEPI, LAMBDA r :
                         /\ InCodes(r, "DCDEPI", dept_codes)
                         /\ InCodes(r, "ICDEPI", items.value)), LAMBDA hit :
                Bind(AggregateRow([qty |-> SqlSumCast(hit, "OSTQTY")]), LAMBDA rows :
                  IF rows = <<>>
                  THEN [value |-> None, queries |-> q2 \o <<Query("DEPI", rows)>>]
                  ELSE [value |-> [kind         |-> "dict",
                                   item_pattern |-> item_pattern,
                                   location     |-> location_pattern,
                                   qty          |-> SafeFloat(rows[1].qty)],
                        queries |-> q2 \o <<Query("DEPI", rows)>>])))))))

\* list.sort(key=balance, reverse=True): descending, equal keys keep their
\* order.  Insert e after every entry whose balance is >= e's.
RECURSIVE InsertDesc(_, _)
InsertDesc(sorted, e) ==
    IF sorted = <<>> THEN <<e>>
    ELSE IF Head(sorted).balance >= e.balance
         THEN <<Head(sorted)>> \o InsertDesc(Tail(sorted), e)
         ELSE <<e>> \o sorted

\* Mutant of SortByBalanceDesc: the sort is skipped, the entries stay in
\* the order of the rows.
SortByBalanceDesc_Unsorted(entries) == entries

RECURSIVE SortByBalanceDesc(_)
SortByBalanceDesc(entries) ==
    IF entries = <<>> THEN <<>>
    ELSE InsertDesc(SortByBalanceDesc(SubSeq(entries, 1, Len(entries) - 1)),
                    entries[Len(entries)])

\* results[:limit]
SliceTo(entries, limit) ==
    IF limit >= 0
    THEN SubSeq(entries, 1, IF limit < Len(entries) THEN limit ELSE Len(entries))
    ELSE SubSeq(entries, 1, IF Len(entries) + limit > 0 THEN Len(entries) + limit ELSE 0)

\* cutoff = date.today() - timedelta(days), as an ordinal.
Cutoff(days) == ToOrdinal(today) - days

\* The parsed date of a joined row: ok = FALSE for the rows the loop skips
\* (no date value, or fromisoformat raising ValueError).
RecordDate(date_value) ==
    IF ~Truthy(date_value) THEN [ok |-> FALSE, y |-> 0, m |-> 0, d |-> 0]
    ELSE FromIsoFormat(BeforeSpace(date_value.text))

\* Mutant of AgingKeeps: a row dated on the cutoff day is kept (> for >=).
AgingKeeps_CutoffKept(p, days, include_negative) ==
    Bind(RecordDate(Col(p.l, "DATE")), LAMBDA record_date :
        /\ record_date.ok
        /\ ~(ToOrdinal(record_date) > Cutoff(days))
        /\ ~(~include_negative /\ SafeFloat(Col(p.l, "BALANCE")) <= 0))

\* Mutant of AgingKeeps: a balance of zero is not dropped (< for <=).
AgingKeeps_ZeroKept(p, days, include_negative) ==
    Bind(RecordDate(Col(p.l, "DATE")), LAMBDA record_date :
        /\ record_date.ok
        /\ ~(ToOrdinal(record_date) >= Cutoff(days))
        /\ ~(~include_negative /\ SafeFloat(Col(p.l, "BALANCE")) < 0))

\* The loop of get_outstanding_over_days keeps this joined row.
AgingKeeps(p, days, include_negative) ==
    Bind(RecordDate(Col(p.l, "DATE")), LAMBDA record_date :
        /\ record_date.ok
        /\ ~(ToOrdinal(record_date) >= Cutoff(days))
        /\ ~(~include_negative /\ SafeFloat(Col(p.l, "BALANCE")) <= 0))

get_outstanding_over_days(days, limit, include_negative) ==
    Bind(RunQuery(JoinRows(db.RMAS, db.AMAS, "ACOD", "ACOD")), LAMBDA rows :
    Bind(SelectSeq(rows, LAMBDA p : AgingKeeps(p, days, include_negative)), LAMBDA kept :
    Bind([i \in 1..Len(kept) |->
            [name     |-> Col(kept[i].r, "ANAM"),
             location |-> LocationOf(Col(kept[i].r, "CITY"), Col(kept[i].r, "STATE")),
             date     |-> IsoFormat(RecordDate(Col(kept[i].l, "DATE"))),
             balance  |-> SafeFloat(Col(kept[i].l, "BALANCE"))]], LAMBDA results :
      [value   |-> SliceTo(SortByBalanceDesc(results), limit),
       queries |-> <<Query("RMAS JOIN AMAS", rows)>>])))

----------------------------------------------------------------------------
(* Question classifier.                                                    *)

\* str(v) of an Optional[str] inside an f-string.
PyStr(v) == IF IsNone(v) THEN "None" ELSE v.text

\* The phrases that set include_negative.
NegativePhrases ==
    <<"show negative", "include negative", "also show negative", "include credits",
      "show credits", "negative values", "credit balances">>

\* Mutant of IncludeNegative: the last phrase of the list is not looked for.
IncludeNegative_LastDropped(lowered) ==
    \E i \in 1..(Len(NegativePhrases) - 1) : Contains(lowered, NegativePhrases[i])

IncludeNegative(lowered) ==
    \E i \in 1..Len(NegativePhrases) : Contains(lowered, NegativePhrases[i])

\* Mutant of Stoppers: a comma does not end the captured name.
Stoppers_NoComma == {".", "?"}

\* re.search(r"outstanding (?:of|for) ([^,.?]+)", question, re.I)
Stoppers == {",", ".", "?"}

RECURSIVE UntilStopper(_)
UntilStopper(s) ==
    IF s = "" \/ CharAt(s, 1) \in Stoppers THEN ""
    ELSE CharAt(s, 1) \o UntilStopper(SubSeq(s, 2, Len(s)))

\* The capture group when the pattern matches at position i, "" when it
\* does not (the group takes at least one character).
CaptureAt(question, i) ==
    LET rest == SubSeq(question, i, Len(question))
        low  == Lower(rest)
        skip == IF StartsWith(low, "outstanding of ") THEN 15
                ELSE IF StartsWith(low, "outstanding for ") THEN 16
                ELSE 0
    IN  IF skip = 0 THEN "" ELSE UntilStopper(SubSeq(rest, skip + 1, Len(rest)))

\* The leftmost match: [found, group].
SearchOutstanding(question) ==
    LET at == {i \in 1..Len(question) : CaptureAt(question, i) # ""}
    IN  IF at = {} THEN [found |-> FALSE, group |-> ""]
        ELSE [found |-> TRUE,
              group |-> CaptureAt(question, CHOOSE i \in at : \A j \in at : i <= j)]

\* The trigger conditions of answer_business_question, on the lowered
\* question, in the order of the if-chain.
TriggerNames ==
    <<"aged_receivables", "pvc_resin_meera", "ll_2025", "hd_2024", "bihar", "tamil_nadu",
      "ta_da_delhi", "october_sales", "electricity_august", "pvc_pipe_jaipur",
      "outstanding_for_name">>

Fires(name, lowered) ==
    CASE name = "aged_receivables" ->
            Contains(lowered, "outstanding") /\ Contains(lowered, "60") /\ Contains(lowered, "day")
      [] name = "pvc_resin_meera" ->
            Contains(lowered, "pvc resin") /\ Contains(lowered, "meera")
      [] name = "ll_2025" ->
            Contains(lowered, "ll purchase") /\ Contains(lowered, "2025")
      [] name = "hd_2024" ->
            Contains(lowered, "hd purchase") /\ Contains(lowered, "2024")
      [] name = "bihar" ->
            Contains(lowered, "total outstanding") /\ Contains(lowered, "bihar")
      [] name = "tamil_nadu" ->
            Contains(lowered, "total outstanding") /\ Contains(lowered, "tamil")
      [] name = "ta_da_delhi" ->
            Contains(lowered, "ta") /\ Contains(lowered, "da") /\ Contains(lowered, "delhi")
      [] name = "october_sales" ->
            Contains(lowered, "sales") /\ Contains(lowered, "october")
      [] name = "electricity_august" ->
            Contains(lowered, "electricity") /\ Contains(lowered, "august")
      [] name = "pvc_pipe_jaipur" ->
            Contains(lowered, "inventory") /\ Contains(lowered, "pvc pipe")
                /\ Contains(lowered, "jaipur")
      [] name = "outstanding_for_name" ->
            Contains(lowered, "outstanding")
      [] OTHER -> FALSE

Descriptor(include_negative) == IF include_negative THEN "including" ELSE "excluding"

\* "\n".join(lines)
JoinLines(lines) == JoinTexts(lines, "\n")

\* An answer: what is returned, the branch taken, the templates it called
\* and the statements they ran.
Answered(handler, text, template, t) ==
    [value |-> Txt(text), handler |-> handler, templates |-> <<template>>, queries |-> t.queries]

\* Mutant of AnswerAging: the threshold and the limit are those the question
\* of the scenario names, 90 days and 5 entries.
AnswerAging_FromQuestion(include_negative) ==
    Bind(get_outstanding_over_days(90, 5, include_negative), LAMBDA t :
    Bind(t.value, LAMBDA aging :
      Answered("aged_receivables",
        IF aging = <<>> THEN "No outstanding payments older than 60 days were found."
        ELSE JoinLines(
               <<"Outstanding payments older than 60 days (" \o Descriptor(include_negative)
                    \o " negative balances):">>
               \o [i \in 1..Len(aging) |->
                     "- " \o PyStr(aging[i].name) \o " (" \o aging[i].location \o ") on "
                       \o aging[i].date \o ": " \o FormatCurrency(aging[i].balance)]),
        "get_outstanding_over_days", t)))

AnswerAging(include_negative) ==
    Bind(get_outstanding_over_days(60, 10, include_negative), LAMBDA t :
    Bind(t.value, LAMBDA aging :
      Answered("aged_receivables",
        IF aging = <<>> THEN "No outstanding payments older than 60 days were found."
        ELSE JoinLines(
               <<"Outstanding payments older than 60 days (" \o Descriptor(include_negative)
                    \o " negative balances):">>
               \o [i \in 1..Len(aging) |->
                     "- " \o PyStr(aging[i].name) \o " (" \o aging[i].location \o ") on "
                       \o aging[i].date \o ": " \o FormatCurrency(aging[i].balance)]),
        "get_outstanding_over_days", t)))

\* The three purchase branches: item phrase, vendor, year, and their texts.
AnswerPurchase(handler, item, vendor, year, none_text, head_text) ==
    Bind(get_purchase_summary(item, vendor, year), LAMBDA t :
    Bind(t.value, LAMBDA summary :
      Answered(handler,
        IF IsNone(summary) THEN none_text
        ELSE head_text \o ": Qty=" \o FormatFixed2(summary.qty) \o ", Amount="
               \o FormatCurrency(summary.amount),
        "get_purchase_summary", t)))

AnswerState(handler, state, include_negative) ==
    Bind(get_state_outstanding(state, include_negative), LAMBDA t :
      Answered(handler,
        "Total outstanding in " \o state \o " (" \o Descriptor(include_negative)
          \o " negative balances): " \o FormatCurrency(t.value),
        "get_state_outstanding", t))

AnswerExpense(handler, keyword, location, month, head_text) ==
    Bind(get_expense_amount(keyword, location, month), LAMBDA t :
      Answered(handler, head_text \o FormatCurrency(t.value), "get_expense_amount", t))

AnswerSales ==
    Bind(get_sales_for_month(10), LAMBDA t :
    Bind(t.value, LAMBDA sales :
      Answered("october_sales",
        IF sales = <<>> THEN "No sales found for October."
        ELSE JoinLines(<<"October sales by year:">>
               \o [i \in 1..Len(sales) |->
                     "- " \o sales[i].year \o ": " \o FormatCurrency(sales[i].amount)]),
        "get_sales_for_month", t)))

AnswerInventory ==
    Bind(get_inventory_for_location("PVC pipe", "Jaipur"), LAMBDA t :
    Bind(t.value, LAMBDA info :
      Answered("pvc_pipe_jaipur",
        IF IsNone(info) THEN "No Jaipur depot inventory found for PVC pipe."
        ELSE "Inventory of PVC pipe at Jaipur depot: " \o FormatFixed2(info.qty) \o " units",
        "get_inventory_for_location", t)))

\* Mutant of Unhandled: the fallback returns an empty string, not None.
Unhandled_EmptyString(handler) ==
    [value |-> Txt(""), handler |-> handler, templates |-> <<>>, queries |-> <<>>]

Unhandled(handler) ==
    [value |-> None, handler |-> handler, templates |-> <<>>, queries |-> <<>>]

AnswerCompany(question, include_negative) ==
    Bind(SearchOutstanding(question), LAMBDA match :
      IF ~match.found THEN Unhandled("outstanding_for_name")
      ELSE
        Bind(Strip(match.group), LAMBDA company :
        Bind(get_company_outstanding(company, include_negative), LAMBDA t :
        Bind(t.value, LAMBDA results :
          Answered("outstanding_for_name",
            IF results = <<>> THEN "No outstanding balances found for " \o company \o "."
            ELSE JoinLines(
                   <<"Outstanding for " \o company \o " (" \o Descriptor(include_negative)
                        \o " negative values):">>
                   \o [i \in 1..Len(results) |->
                         "- " \o PyStr(results[i].company) \o " (" \o results[i].location
                           \o "): " \o FormatCurrency(results[i].balance)]),
            "get_company_outstanding", t)))))

\* The if-chain from "total outstanding ... bihar" to the final return.
AnswerFromStates(question, lowered, include_negative) ==
    IF Fires("bihar", lowered) THEN AnswerState("bihar", "Bihar", include_negative)
    ELSE IF Fires("tamil_nadu", lowered)
    THEN AnswerState("tamil_nadu", "Tamil Nadu", include_negative)
    ELSE IF Fires("ta_da_delhi", lowered)
    THEN AnswerExpense("ta_da_delhi", "TA DA", Txt("Delhi"), None,
             "TA/DA expense for Delhi office: ")
    ELSE IF Fires("october_sales", lowered) THEN AnswerSales
    ELSE IF Fires("electricity_august", lowered)
    THEN AnswerExpense("electricity_august", "Electricity", None, Num(8),
             "Electricity bills for August: ")
    ELSE IF Fires("pvc_pipe_jaipur", lowered) THEN AnswerInventory
    ELSE IF Fires("outstanding_for_name", lowered)
    THEN AnswerCompany(question, include_negative)
    ELSE Unhandled("none")

\* Mutant of AnswerFromPurchases: the HD branch fires on any "purchase".
AnswerFromPurchases_AnyPurchase(question, lowered, include_negative) ==
    IF Fires("pvc_resin_meera", lowered)
    THEN AnswerPurchase("pvc_resin_meera", "PVC resin", Txt("Meera Polymers"), None,
             "No PVC resin purchases from Meera Polymers were found.",
             "Total PVC resin purchases from Meera Polymers")
    ELSE IF Fires("ll_2025", lowered)
    THEN AnswerPurchase("ll_2025", "LL", None, Txt("2025"),
             "No LL purchases recorded for 2025.", "Total LL purchases during 2025")
    ELSE IF Contains(lowered, "purchase")
    THEN AnswerPurchase("hd_2024", "HD", None, Txt("2024"),
             "No HD purchases recorded for 2024.", "Total HD purchases during 2024")
    ELSE AnswerFromStates(question, lowered, include_negative)

\* The three purchase branches, then the rest of the chain.
AnswerFromPurchases(question, lowered, include_negative) ==
    IF Fires("pvc_resin_meera", lowered)
    THEN AnswerPurchase("pvc_resin_meera", "PVC resin", Txt("Meera Polymers"), None,
             "No PVC resin purchases from Meera Polymers were found.",
             "Total PVC resin purchases from Meera Polymers")
    ELSE IF Fires("ll_2025", lowered)
    THEN AnswerPurchase("ll_2025", "LL", None, Txt("2025"),
             "No LL purchases recorded for 2025.", "Total LL purchases during 2025")
    ELSE IF Fires("hd_2024", lowered)
    THEN AnswerPurchase("hd_2024", "HD", None, Txt("2024"),
             "No HD purchases recorded for 2024.", "Total HD purchases during 2024")
    ELSE AnswerFromStates(question, lowered, include_negative)

\* Mutant of answer_business_question: the Bihar total is tried before the
\* aged-receivables branch.
answer_business_question_BiharFirst(question) ==
    Bind(Lower(question), LAMBDA lowered :
    Bind(IncludeNegative(lowered), LAMBDA include_negative :
      IF Fires("bihar", lowered) THEN AnswerState("bihar", "Bihar", include_negative)
      ELSE IF Fires("aged_receivables", lowered) THEN AnswerAging(include_negative)
      ELSE AnswerFromPurchases(question, lowered, include_negative)))

answer_business_question(question) ==
    Bind(Lower(question), LAMBDA lowered :
    Bind(IncludeNegative(lowered), LAMBDA include_negative :
      IF Fires("aged_receivables", lowered) THEN AnswerAging(include_negative)
      ELSE AnswerFromPurchases(question, lowered, include_negative)))

----------------------------------------------------------------------------
(* Store contents.  The conversion job (src/index.py) creates every column *)
(* as TEXT and stores str(value), or NULL for a missing value.             *)

\* (STATE is a reserved word of TLA+: that column is keyed by its string.)
Account(acod, anam, city, state, balance) ==
    [ACOD |-> acod, ANAM |-> anam, CITY |-> city, BALANCE |-> balance, nulls |-> {}]
        @@ ("STATE" :> state)

Item(icimas, ialias) == [ICIMAS |-> icimas, IALIAS |-> ialias, nulls |-> {}]

Dept(dcdept, dndept) == [DCDEPT |-> dcdept, DNDEPT |-> dndept, nulls |-> {}]

DeptItem(dcdepi, icdepi, ostqty) ==
    [DCDEPI |-> dcdepi, ICDEPI |-> icdepi, OSTQTY |-> ostqty, nulls |-> {}]

PurchaseLine(vhno, vhty, icsitm, iqsitm, iasitm) ==
    [VHNO |-> vhno, VHTY |-> vhty, ICSITM |-> icsitm, IQSITM |-> iqsitm, IASITM |-> iasitm,
     nulls |-> {}]

PurchaseHeader(vhno, vcprch, bdprch) ==
    [VHNO |-> vhno, VCPRCH |-> vcprch, BDPRCH |-> bdprch, nulls |-> {}]

Sale(bdsale, total1) == [BDSALE |-> bdsale, TOTAL1 |-> total1, nulls |-> {}]

Expense(cod1, amnt, date) == [COD1 |-> cod1, AMNT |-> amnt, DATE |-> date, nulls |-> {}]

Aging(acod, date, balance) ==
    [ACOD |-> acod, DATE |-> date, BALANCE |-> balance, nulls |-> {}]

\* The row with column c holding NULL.
WithNull(row, c) == [row EXCEPT !.nulls = @ \cup {c}]

\* exists: there is a file at DB_PATH; tables: the file holds the tables the
\* conversion job creates.
EmptyStore ==
    [exists |-> TRUE, tables |-> TRUE, AMAS |-> <<>>, IMAS |-> <<>>, DEPT |-> <<>>, DEPI |-> <<>>,
     SITM |-> <<>>, PRCH |-> <<>>, SALE |-> <<>>, TMAS |-> <<>>, RMAS |-> <<>>]

\* No store file: _db_exists() is false, whatever a store would hold.
AbsentStore == [EmptyStore EXCEPT !.exists = FALSE, !.tables = FALSE]

\* A file that the conversion job has not written to: a database without
\* tables.
BlankStore == [EmptyStore EXCEPT !.tables = FALSE]

\* The accounts of the Bihar scenario.
BiharAccounts ==
    <<Account("A1", "Acme Traders", "Patna", "Bihar", "5000"),
      Account("A2", "Meera Polymers", "Gaya", "Bihar West", "-200"),
      Account("A3", "Acme Steel", "Chennai", "Tamil Nadu", "300")>>

\* A store around the Bihar scenario's accounts.
ScenarioStore ==
    [exists |-> TRUE, tables |-> TRUE,
     AMAS |-> BiharAccounts,
     IMAS |-> <<Item("I1", "PVC RESIN K67"), Item("I2", "LLDPE"), Item("I3", "PVC PIPE 4IN")>>,
     DEPT |-> <<Dept("D1", "Jaipur Depot"), Dept("D2", "Patna Depot")>>,
     DEPI |-> <<DeptItem("D1", "I3", "1,250.50"), DeptItem("D2", "I3", "40"),
                DeptItem("D1", "I1", "7")>>,
     SITM |-> <<PurchaseLine("V1", "Prch", "I1", "10.5", "1,050.00"),
                PurchaseLine("V2", "Prch", "I2", "3", "450"),
                PurchaseLine("V3", "Sale", "I1", "99", "9900")>>,
     PRCH |-> <<PurchaseHeader("V1", "A2", "2025-02-10"),
                PurchaseHeader("V2", "A1", "2025-03-01")>>,
     SALE |-> <<Sale("2024-10-05", "1,000.00"), Sale("2023-10-20", "250.5"),
                Sale("2024-10-31", "24.50"), Sale("2024-11-01", "77")>>,
     TMAS |-> <<Expense("A3", "120.00", "2024-08-15"), Expense("A1", "0", "2024-08-01"),
                Expense("A2", "75.50", "2024-07-09")>>,
     RMAS |-> <<Aging("A1", "2023-12-31", "500.0"),
                Aging("A2", "2023-11-15 09:30:00", "9,000"),
                Aging("A3", "2023-10-01", "100"),
                Aging("A1", "2024-02-20", "700")>>]

\* A store with expense accounts, NULL, empty and malformed texts in the
\* date and amount columns, and items that resolve but have no purchase
\* line.
LedgerStore ==
    [exists |-> TRUE, tables |-> TRUE,
     AMAS |-> <<Account("E1", "TA Expenses", "New Delhi", "Delhi", "0"),
                Account("E2", "DA Allowance", "Mumbai", "Maharashtra", ""),
                Account("E3", "Electricity Board", "Delhi", "Delhi", "12abc"),
                WithNull(WithNull(Account("C1", "Acme Traders Pvt", "", "", "-75.25"),
                                  "CITY"), "STATE"),
                Account("C2", "Meera Polymers", "Madurai", "Tamil Nadu", "1,200.75")>>,
     IMAS |-> <<Item("H1", "HDPE GRANULES"), Item("L1", "LLDPE FILM"),
                Item("P1", "PVC RESIN"), Item("P2", "PVC PIPE")>>,
     DEPT |-> <<Dept("D9", "Jaipur")>>,
     DEPI |-> <<DeptItem("D9", "H1", "5")>>,
     SITM |-> <<PurchaseLine("V7", "Prch", "H1", "2", "200.00"),
                PurchaseLine("V8", "Prch", "P1", "1", "90"),
                WithNull(PurchaseLine("V9", "Prch", "H1", "", "n/a"), "IQSITM")>>,
     PRCH |-> <<PurchaseHeader("V7", "C2", "2024-06-30"),
                PurchaseHeader("V8", "C1", "2024-07-01"),
                PurchaseHeader("V9", "C2", "2024")>>,
     SALE |-> <<Sale("2024-09-30", "10"), Sale("", "5"), Sale("10", "7"),
                WithNull(Sale("", "8"), "BDSALE")>>,
     TMAS |-> <<Expense("E1", "300", "2024-08-01"), Expense("E2", "45.50", "2024-08-02"),
                Expense("E3", "1,000", "2024-08-31"), Expense("E3", "900", "2024-07-31"),
                WithNull(Expense("E3", "", "2024-08-09"), "AMNT"),
                WithNull(Expense("E1", "15", ""), "DATE"), Expense("E2", "", "August")>>,
     RMAS |-> <<Aging("C1", "2023-01-01", "-75.25"), Aging("C2", "2024-02-28", "10"),
                Aging("C2", "not a date", "5"), Aging("C2", "", "6"),
                WithNull(Aging("C1", "", "7"), "DATE"),
                WithNull(Aging("C2", "2023-05-05", ""), "BALANCE"),
                Aging("C2", "2023-13-01", "8"), Aging("C2", "2023-05-06", "x")>>]

\* The day the questions are asked on: date.today().
Today == [y |-> 2024, m |-> 3, d |-> 1]

----------------------------------------------------------------------------
(* The classifier over whole questions.                                    *)

\* Pieces of questions; a question is up to MaxFrags of them, joined by a
\* space.
Fragments ==
    {"what is the weather today",
     "Outstanding over 60 days",
     "PVC resin bought from Meera",
     "LL purchase in 2025",
     "HD purchase in 2024",
     "total outstanding in Bihar",
     "Total Outstanding for Tamil Nadu",
     "TA DA for Delhi",
     "sales in October",
     "electricity bill for August",
     "inventory of PVC pipe at Jaipur",
     "outstanding of Acme Traders",
     "outstanding for Meera, include negative",
     "show credits",
     "outstanding",
     "purchase summary for XYZ123 item",
     "update on Delhi data"}

MaxFrags == 2

RECURSIVE QuestionsOf(_)
QuestionsOf(n) ==
    IF n = 0 THEN {""}
    ELSE IF n = 1 THEN Fragments
    ELSE {q \o " " \o f : q \in QuestionsOf(n - 1), f \in Fragments}

Questions == UNION {QuestionsOf(n) : n \in 0..MaxFrags}

ClassifierStores == {AbsentStore, EmptyStore, ScenarioStore, LedgerStore}

NoCall == [op |-> "none"]

Init ==
    /\ db \in ClassifierStores
    /\ today = Today
    /\ call = NoCall
    /\ ret = None
    /\ templates = <<>>
    /\ queries = <<>>

\* A caller calls answer_business_question(question) and gets its answer.
Ask(question) ==
    /\ call = NoCall
    /\ \E a \in {answer_business_question(question)} :
        /\ call' = [op |-> "answer_business_question", question |-> question,
                    handler |-> a.handler]
        /\ ret' = Outcome(a.value, a.queries)
        /\ templates' = a.templates
        /\ queries' = a.queries
        /\ db' = StoreAfter(a.queries)
    /\ UNCHANGED today

\* The caller is done with the answer; nothing of the call is kept.
Return ==
    /\ call # NoCall
    /\ call' = NoCall
    /\ ret' = None
    /\ templates' = <<>>
    /\ queries' = <<>>
    /\ UNCHANGED <<db, today>>

Next ==
    \/ \E question \in Questions : Ask(question)
    \/ Return

Spec == Init /\ [][Next]_vars

----------------------------------------------------------------------------
(* The resolvers and templates called directly, over generated tables.     *)

\* A Python list, as a returned value.
List(items) == [kind |-> "list", items |-> items]

\* The call c of template t returned: its value v, and its statements.
Returned(c, v, t) ==
    /\ call' = c
    /\ ret' = Outcome(v, t.queries)
    /\ templates' = <<c.op>>
    /\ queries' = t.queries
    /\ db' = StoreAfter(t.queries)
    /\ UNCHANGED today

CallFindAccountCodes(pattern) ==
    /\ call = NoCall
    /\ \E t \in {find_account_codes(pattern)} :
           Returned([op |-> "_find_account_codes", pattern |-> pattern], List(t.value), t)

CallFindItemCodes(pattern) ==
    /\ call = NoCall
    /\ \E t \in {find_item_codes(pattern)} :
           Returned([op |-> "_find_item_codes", pattern |-> pattern], List(t.value), t)

CallCompanyOutstanding(company_name, include_negative) ==
    /\ call = NoCall
    /\ \E t \in {get_company_outstanding(company_name, include_negative)} :
           Returned([op |-> "get_company_outstanding", company_name |-> company_name,
                     include_negative |-> include_negative], List(t.value), t)

CallStateOutstanding(state, include_negative) ==
    /\ call = NoCall
    /\ \E t \in {get_state_outstanding(state, include_negative)} :
           Returned([op |-> "get_state_outstanding", state |-> state,
                     include_negative |-> include_negative], Num(t.value), t)

CallPurchaseSummary(item_pattern, vendor_pattern, year) ==
    /\ call = NoCall
    /\ \E t \in {get_purchase_summary(item_pattern, vendor_pattern, year)} :
           Returned([op |-> "get_purchase_summary", item_pattern |-> item_pattern,
                     vendor_pattern |-> vendor_pattern, year |-> year], t.value, t)

CallInventoryForLocation(item_pattern, location_pattern) ==
    /\ call = NoCall
    /\ \E t \in {get_inventory_for_location(item_pattern, location_pattern)} :
           Returned([op |-> "get_inventory_for_location", item_pattern |-> item_pattern,
                     location_pattern |-> location_pattern], t.value, t)

CallExpenseAmount(keyword, location, month) ==
    /\ call = NoCall
    /\ \E t \in {get_expense_amount(keyword, location, month)} :
           Returned([op |-> "get_expense_amount", keyword |-> keyword,
                     location |-> location, month |-> month], Num(t.value), t)

CallSalesForMonth(month) ==
    /\ call = NoCall
    /\ \E t \in {get_sales_for_month(month)} :
           Returned([op |-> "get_sales_for_month", month |-> month], List(t.value), t)

CallOutstandingOverDays(days, limit, include_negative) ==
    /\ call = NoCall
    /\ \E t \in {get_outstanding_over_days(days, limit, include_negative)} :
           Returned([op |-> "get_outstanding_over_days", days |-> days, limit |-> limit,
                     include_negative |-> include_negative], List(t.value), t)

\* The tables of at most n rows drawn from pool.
RECURSIVE TablesOf(_, _)
TablesOf(pool, n) ==
    IF n = 0 THEN {<<>>}
    ELSE LET shorter == TablesOf(pool, n - 1)
         IN  shorter \cup {Append(t, r) : t \in {u \in shorter : Len(u) = n - 1}, r \in pool}

MaxRows == 2

AccountPool ==
    {Account("A1", "Acme Traders", "Patna", "Bihar", "5000"),
     Account("A2", "TRADERS & CO (ACME)", "Gaya", "Bihar West", "-200"),
     Account("", "acme steel", "", "west bihar", "1,200.50"),
     WithNull(WithNull(Account("A5", "", "Chennai", "Tamil Nadu", ""), "ANAM"), "BALANCE")}

ItemPool ==
    {Item("I1", "PVC RESIN K67"),
     Item("PVC2", "Resin pipe"),
     WithNull(Item("", "pvc resin"), "ICIMAS")}

\* The phrases of at most n keywords from kws, joined by a space.
RECURSIVE PhrasesOf(_, _)
PhrasesOf(kws, n) ==
    IF n = 0 THEN {""}
    ELSE LET shorter == PhrasesOf(kws, n - 1)
         IN  shorter \cup kws \cup {p \o " " \o k : p \in shorter \ {""}, k \in kws}

MaxKeywords == 2

\* Phrases from which no keyword is extracted.
NoKeywordPhrases == {"", " ", "?!", "-., "}

AccountPhrases == PhrasesOf({"acme", "TRADERS"}, MaxKeywords) \cup NoKeywordPhrases

StatePhrases == PhrasesOf({"bihar", "West"}, MaxKeywords) \cup NoKeywordPhrases

ItemPhrases == PhrasesOf({"pvc", "Resin"}, MaxKeywords) \cup NoKeywordPhrases

VendorPhrases == {None, Txt(""), Txt("?!"), Txt("Meera"), Txt("acme")}

LocationPhrases == {"Jaipur", "jaipur depot", "Patna Jaipur", "Kota"} \cup NoKeywordPhrases

\* The location argument of get_expense_amount: an Optional[str].
ExpenseLocations == {None, Txt("Patna"), Txt("?!")}

InitResolve ==
    /\ db \in {AbsentStore}
              \cup {[ScenarioStore EXCEPT !.AMAS = t] : t \in TablesOf(AccountPool, MaxRows)}
              \cup {[ScenarioStore EXCEPT !.IMAS = t] : t \in TablesOf(ItemPool, MaxRows)}
    /\ today = Today
    /\ call = NoCall
    /\ ret = None
    /\ templates = <<>>
    /\ queries = <<>>

NextResolve ==
    \/ \E pattern \in AccountPhrases : CallFindAccountCodes(pattern)
    \/ \E pattern \in ItemPhrases : CallFindItemCodes(pattern)
    \/ \E company_name \in AccountPhrases, include_negative \in BOOLEAN :
           CallCompanyOutstanding(company_name, include_negative)
    \/ \E state \in StatePhrases, include_negative \in BOOLEAN :
           CallStateOutstanding(state, include_negative)
    \/ \E item_pattern \in ItemPhrases, vendor_pattern \in VendorPhrases,
          year \in {None, Txt("2025")} :
           CallPurchaseSummary(item_pattern, vendor_pattern, year)
    \/ \E item_pattern \in ItemPhrases, location_pattern \in LocationPhrases :
           CallInventoryForLocation(item_pattern, location_pattern)
    \/ \E keyword \in AccountPhrases, location \in ExpenseLocations, month \in {None, Num(8)} :
           CallExpenseAmount(keyword, location, month)
    \/ Return

SpecResolve == InitResolve /\ [][NextResolve]_vars

----------------------------------------------------------------------------
(* Aged receivables over generated receivable records.                     *)

MaxAging == 3

\* With Today = 2024-03-01 the cutoff of 60 days is 2024-01-01.
AgingPool ==
    {Aging("A1", "2023-12-31", "500.0"),
     Aging("A2", "2023-11-15 09:30:00", "9,000"),
     Aging("A3", "2023-10-01", "100"),
     Aging("A1", "2024-01-01 00:00:00", "700"),
     Aging("A3", "2023-02-30", "950"),
     Aging("A1", "", "900"),
     WithNull(Aging("A2", "", "900"), "DATE"),
     Aging("A2", "2023-06-30", "-250.0")}

MaxLimit == 2

Limits == (0..MaxLimit) \cup {10}

\* With 61 days the cutoff is 2023-12-31.
DaysValues == {60, 61}

InitAging ==
    /\ db \in {AbsentStore}
              \cup {[EmptyStore EXCEPT !.AMAS = BiharAccounts, !.RMAS = t] :
                        t \in TablesOf(AgingPool, MaxAging)}
    /\ today = Today
    /\ call = NoCall
    /\ ret = None
    /\ templates = <<>>
    /\ queries = <<>>

NextAging ==
    \/ \E days \in DaysValues, limit \in Limits, include_negative \in BOOLEAN :
           CallOutstandingOverDays(days, limit, include_negative)
    \/ Return

SpecAging == InitAging /\ [][NextAging]_vars

----------------------------------------------------------------------------
(* Every template over generated amount texts.                             *)

MaxAmounts == 2

\* What an amount, quantity or balance column may hold: NULL (None), or a
\* text, well-formed or not.
AmountTexts ==
    {None, Txt(""), Txt(" "), Txt("0"), Txt("-200"), Txt("1,234.50"), Txt(" 5000.0 "),
     Txt("abc"), Txt("12abc")}

\* The row with column c holding the value v.
SetCol(row, c, v) == IF IsNone(v) THEN WithNull(row, c) ELSE [row EXCEPT ![c] = v.text]

Code(prefix, i) == prefix \o ToString(i)

\* A store in which the i-th row of every table that carries an amount, a
\* quantity or a balance holds texts[i] in those columns; every row is
\* matched by the calls of NextAmounts.
AmountStore(texts) ==
    LET n == Len(texts)
    IN  [exists |-> TRUE, tables |-> TRUE,
         AMAS |-> [i \in 1..n |->
                     SetCol(Account(Code("A", i), "Acme " \o ToString(i), "Patna", "Bihar", ""),
                            "BALANCE", texts[i])],
         IMAS |-> <<Item("I1", "PVC PIPE")>>,
         DEPT |-> <<Dept("D1", "Jaipur")>>,
         DEPI |-> [i \in 1..n |-> SetCol(DeptItem("D1", "I1", ""), "OSTQTY", texts[i])],
         SITM |-> [i \in 1..n |->
                     SetCol(SetCol(PurchaseLine(Code("V", i), "Prch", "I1", "", ""),
                                   "IQSITM", texts[i]), "IASITM", texts[i])],
         PRCH |-> [i \in 1..n |-> PurchaseHeader(Code("V", i), "A1", "2025-01-15")],
         SALE |-> [i \in 1..n |-> SetCol(Sale("2024-10-05", ""), "TOTAL1", texts[i])],
         TMAS |-> [i \in 1..n |->
                     SetCol(Expense(Code("A", i), "", "2024-08-01"), "AMNT", texts[i])],
         RMAS |-> [i \in 1..n |->
                     SetCol(Aging(Code("A", i), "2023-06-30", ""), "BALANCE", texts[i])]]

InitAmounts ==
    /\ db \in {AmountStore(texts) : texts \in TablesOf(AmountTexts, MaxAmounts)}
    /\ today = Today
    /\ call = NoCall
    /\ ret = None
    /\ templates = <<>>
    /\ queries = <<>>

NextAmounts ==
    \/ \E include_negative \in BOOLEAN : CallCompanyOutstanding("Acme", include_negative)
    \/ \E include_negative \in BOOLEAN : CallStateOutstanding("Bihar", include_negative)
    \/ CallPurchaseSummary("PVC pipe", None, None)
    \/ CallSalesForMonth(10)
    \/ CallExpenseAmount("Acme", None, None)
    \/ CallInventoryForLocation("PVC pipe", "Jaipur")
    \/ \E include_negative \in BOOLEAN : CallOutstandingOverDays(60, 10, include_negative)
    \/ Return

SpecAmounts == InitAmounts /\ [][NextAmounts]_vars

----------------------------------------------------------------------------
(* The formatter and the keyword extractor called directly.                *)

\* A function that runs no statement returned v.
Pure(v) == [value |-> v, queries |-> <<>>]

CallFormatCurrency(amount) ==
    /\ call = NoCall
    /\ \E t \in {Pure(FormatCurrency(amount))} :
           Returned([op |-> "format_currency", amount |-> amount], Txt(t.value), t)

CallExtractKeywords(text) ==
    /\ call = NoCall
    /\ \E t \in {Pure(ExtractKeywords(Txt(text)))} :
           Returned([op |-> "_extract_keywords", text |-> text], List(t.value), t)

\* Amounts in hundredths: whole parts of one to seven digits, with and
\* without cents, of either sign.  123450 is 1234.5.
Amounts ==
    {sign * (100 * whole + cents) :
        sign \in {1, 0 - 1},
        whole \in {0, 1, 12, 999, 1000, 1234, 999999, 1000000, 1234567},
        cents \in {0, 5, 50, 99}}

MaxLen == 3

\* The characters texts are made of: letters of both cases, a digit, the
\* ampersand, a blank, the two LIKE wildcards and a hyphen.
TextChars == {"a", "B", "7", "&", " ", "%", "_", "-"}

\* The texts of at most n characters.
RECURSIVE TextsOf(_)
TextsOf(n) ==
    IF n = 0 THEN {""}
    ELSE LET shorter == TextsOf(n - 1)
         IN  shorter \cup {t \o c : t \in {u \in shorter : Len(u) = n - 1}, c \in TextChars}

InitText ==
    /\ db = AbsentStore
    /\ today = Today
    /\ call = NoCall
    /\ ret = None
    /\ templates = <<>>
    /\ queries = <<>>

NextText ==
    \/ \E amount \in Amounts : CallFormatCurrency(amount)
    \/ \E text \in TextsOf(MaxLen) : CallExtractKeywords(text)
    \/ Return

SpecText == InitText /\ [][NextText]_vars

----------------------------------------------------------------------------
(* The classifier and the templates over the ledgers.                      *)

\* Twelve receivable records of the Bihar scenario's accounts at balances
\* 100, 200, ... 1200; the fifth is dated on the cutoff day of 60 days, the
\* others before it.  Sales of three years, not in the order of the years,
\* with an amount that is no number and a date that is none.
ArchiveStore ==
    [EmptyStore EXCEPT
        !.AMAS = BiharAccounts,
        !.RMAS = [i \in 1..12 |->
                    Aging(Code("A", 1 + (i % 3)),
                          IF i = 5 THEN "2024-01-01" ELSE "2023-06-30",
                          ToString(100 * i))],
        !.SALE = <<Sale("2025-10-01", "5"), Sale("2023-10-09 10:00:00", "1"),
                   Sale("2024-10-15", "abc"), Sale("2023-10-31", "2,000.25"),
                   Sale("24-1-10-x", "3"), Sale("2025-01-10", "4"),
                   Sale("2022-1-05", "6"), Sale("2021/10/05", "7"),
                   WithNull(Sale("2023-10-10", ""), "TOTAL1")>>]

\* Questions that mention outstanding balances: a question of each branch
\* that takes the flag, followed by a phrase that sets it, a phrase that
\* nearly does, or other numbers; and questions with and without a name
\* after "outstanding".
OutstandingQuestions ==
    {t \o s :
        t \in {"Outstanding over 60 days", "total outstanding in Bihar",
               "Total Outstanding for Tamil Nadu", "outstanding of Acme Traders",
               "Outstanding FOR meera"},
        s \in {"", ", show negative", ", Include Negative", ", also show negative",
               ", include credits", ", SHOW CREDITS", ", negative values",
               ", credit balances", " show credits", ", negative", ", show  negative",
               ", credits included", ", top 5 over 90 days since 2023"}}
    \cup {"outstanding", "What is outstanding?", "outstanding of, Acme", "outstanding of  ?",
          "outstanding for Acme. show credits", "outstanding from Acme Traders",
          "Outstanding forAcme", "is the outstanding of acme steel, or outstanding for Meera?",
          "outstanding over 90 days", "outstanding 1 day in 2060"}

InitLedger ==
    /\ db \in ClassifierStores \cup {ArchiveStore, BlankStore}
    /\ today = Today
    /\ call = NoCall
    /\ ret = None
    /\ templates = <<>>
    /\ queries = <<>>

NextLedger ==
    \/ \E question \in OutstandingQuestions
                          \cup {"sales in October", "October SALES, 2024?",
                                "PVC resin bought from Meera",
                                "inventory of PVC pipe at Jaipur"} :
           Ask(question)
    \/ \E keyword \in {"TA DA", "Electricity", "ta", "board allowance", "Acme Meera", "?!"},
          location \in {None, Txt(""), Txt("Delhi"), Txt("mumbai delhi"), Txt("Nadu"),
                        Txt("Pune"), Txt("?!")},
          month \in {None} \cup {Num(m) : m \in {0, 7, 8, 12}} :
           CallExpenseAmount(keyword, location, month)
    \/ \E month \in 1..12 : CallSalesForMonth(month)
    \/ \E item_pattern \in {"PVC resin", "HD"},
          vendor_pattern \in {None, Txt(""), Txt("?!"), Txt("Meera")},
          year \in {None, Txt("2024")} :
           CallPurchaseSummary(item_pattern, vendor_pattern, year)
    \/ Return

SpecLedger == InitLedger /\ [][NextLedger]_vars

----------------------------------------------------------------------------
(* Claims about the classifier's dispatch.                                 *)

Asked == call.op = "answer_business_question"

\* The positions, in the order of the if-chain, of the triggers a lowered
\* question fires.
FiringIn(lowered) == {i \in 1..Len(TriggerNames) : Fires(TriggerNames[i], lowered)}

\* Those of the question of the call.
Firing == FiringIn(Lower(call.question))

\* C1: a question that satisfies none of the trigger conditions is answered
\* with the sentinel None (no string, not even an empty one), and no
\* template and no statement is run for it.
C1_UnmatchedIsUnhandled ==
    (Asked /\ Firing = {}) => (ret = None /\ templates = <<>> /\ queries = <<>>)

\* C1's case: the weather question, asked of a store that has data.
C1_Witness ==
    /\ Asked
    /\ call.question = "what is the weather today"
    /\ Firing = {}
    /\ db = ScenarioStore
    /\ ret = None

\* The template each branch calls.
TemplateOf(handler) ==
    CASE handler = "aged_receivables" -> "get_outstanding_over_days"
      [] handler \in {"pvc_resin_meera", "ll_2025", "hd_2024"} -> "get_purchase_summary"
      [] handler \in {"bihar", "tamil_nadu"} -> "get_state_outstanding"
      [] handler \in {"ta_da_delhi", "electricity_august"} -> "get_expense_amount"
      [] handler = "october_sales" -> "get_sales_for_month"
      [] handler = "pvc_pipe_jaipur" -> "get_inventory_for_location"
      [] handler = "outstanding_for_name" -> "get_company_outstanding"
      [] OTHER -> "none"

\* The dispatch of the call agrees with the set firing of the triggers its
\* lowered question fires.
DispatchedFirst(firing, lowered) ==
    /\ Len(templates) <= 1
    /\ firing = {} => call.handler = "none"
    /\ firing # {} =>
         LET first == CHOOSE i \in firing : \A j \in firing : i <= j
         IN  /\ call.handler = TriggerNames[first]
             /\ templates # <<>> => templates = <<TemplateOf(TriggerNames[first])>>
             /\ first < Len(TriggerNames) => templates # <<>>
    /\ (Contains(lowered, "outstanding") /\ Contains(lowered, "60") /\ Contains(lowered, "day")) =>
         /\ templates = <<"get_outstanding_over_days">>
         /\ ret.kind = "str"
         /\ \/ ret.text = "No outstanding payments older than 60 days were found."
            \/ StartsWith(ret.text, "Outstanding payments older than 60 days (")

\* C2: the branch that answers is the one of the earliest trigger the
\* question fires, at most one template is called, and it is that branch's;
\* a question with "outstanding", "60" and "day" gets the aged-receivables
\* answer.
C2_FirstTriggerWins ==
    Asked => DispatchedFirst(Firing, Lower(call.question))

\* C2's case: a question that fires the aged-receivables, the Bihar and the
\* generic outstanding triggers at once.
C2_Witness ==
    /\ Asked
    /\ call.question = "total outstanding in Bihar Outstanding over 60 days"
    /\ {1, 5, 11} \subseteq Firing
    /\ db = ScenarioStore
    /\ templates = <<"get_outstanding_over_days">>

----------------------------------------------------------------------------
(* Claims about the resolvers and the templates.                           *)

KeywordsOf(phrase) == ExtractKeywords(Txt(phrase))

\* The orderings of a sequence.
Perms(seq) ==
    {[i \in 1..Len(seq) |-> seq[f[i]]] :
        f \in {g \in [1..Len(seq) -> 1..Len(seq)] :
                  \A i, j \in 1..Len(seq) : g[i] = g[j] => i = j}}

Rejoined(keywords) == JoinTexts(keywords, " ")

\* C3: resolving the keywords of the phrase in any other order gives the
\* same keys (_find_account_codes, _find_item_codes), the same entries
\* (get_company_outstanding) and the same selected rows
\* (get_state_outstanding).
C3_OrderIndependent ==
    /\ call.op = "_find_account_codes" =>
         \A perm \in Perms(KeywordsOf(call.pattern)) :
             Range(find_account_codes(Rejoined(perm)).value) = Range(ret.items)
    /\ call.op = "_find_item_codes" =>
         \A perm \in Perms(KeywordsOf(call.pattern)) :
             Range(find_item_codes(Rejoined(perm)).value) = Range(ret.items)
    /\ call.op = "get_company_outstanding" =>
         \A perm \in Perms(KeywordsOf(call.company_name)) :
             Range(get_company_outstanding(Rejoined(perm), call.include_negative).value)
                 = Range(ret.items)
    /\ (call.op = "get_state_outstanding" /\ queries # <<>>) =>
         \A perm \in Perms(KeywordsOf(call.state)) :
             LET t == get_state_outstanding(Rejoined(perm), call.include_negative)
             IN  /\ Range(t.queries[1].rows) = Range(queries[1].rows)
                 /\ t.value = ret.val

\* C3's case: a phrase of two different keywords that selects some of the
\* accounts and not the others.
C3_Witness ==
    /\ call.op = "_find_account_codes"
    /\ KeywordsOf(call.pattern) = <<"TRADERS", "ACME">>
    /\ Len(db.AMAS) = 2
    /\ Len(queries[1].rows) = 1
    /\ ret.items # <<>>

\* Keywords added to a phrase.
ExtraKeywords == {"acme", "TRADERS", "steel", "CO", "pvc", "Resin", "pipe", "K67"}

\* C4: for a phrase with a keyword, the keys resolved with one more keyword
\* are among the keys resolved without it.
C4_MoreKeywordsNarrow ==
    /\ (call.op = "_find_account_codes" /\ KeywordsOf(call.pattern) # <<>>) =>
         \A k \in ExtraKeywords :
             Range(find_account_codes(call.pattern \o " " \o k).value) \subseteq Range(ret.items)
    /\ (call.op = "_find_item_codes" /\ KeywordsOf(call.pattern) # <<>>) =>
         \A k \in ExtraKeywords :
             Range(find_item_codes(call.pattern \o " " \o k).value) \subseteq Range(ret.items)

\* C4's case: a one-keyword phrase resolving two keys, of which a second
\* keyword keeps one and drops the other.
C4_Witness ==
    /\ call.op = "_find_account_codes"
    /\ call.pattern = "TRADERS"
    /\ Cardinality(Range(ret.items)) = 2
    /\ Cardinality(Range(find_account_codes(call.pattern \o " " \o "CO").value)) = 1

Max0(n) == IF n > 0 THEN n ELSE 0

\* The parsed balances of the rows a statement returned.
BalancesOf(rows) == [i \in 1..Len(rows) |-> SafeFloat(Col(rows[i], "BALANCE"))]

\* C5: get_state_outstanding returns, without include_negative, the sum of
\* max(balance, 0) over the rows matched (so never less than 0), and with it
\* the sum of the balances as they are.
C5_StateTotalFloorsAtZero ==
    call.op = "get_state_outstanding" =>
        LET balances == IF queries = <<>> THEN <<>> ELSE BalancesOf(queries[1].rows)
        IN  IF call.include_negative
            THEN ret.val = SeqSum(balances)
            ELSE /\ ret.val = SeqSum([i \in 1..Len(balances) |-> Max0(balances[i])])
                 /\ ret.val >= 0

\* C5's case: a total without include_negative over matched rows of which
\* one has a negative balance.
C5_Witness ==
    /\ call.op = "get_state_outstanding"
    /\ ~call.include_negative
    /\ call.state = "bihar"
    /\ queries # <<>>
    /\ \E i, j \in 1..Len(queries[1].rows) :
           BalancesOf(queries[1].rows)[i] < 0 /\ BalancesOf(queries[1].rows)[j] > 0
    /\ ret.val > 0

\* C7: with an item phrase that has no keyword, get_purchase_summary returns
\* None, and with an item or a location phrase that has none,
\* get_inventory_for_location returns None: never a record.
C7_NoKeywordNoResult ==
    /\ (call.op = "get_purchase_summary" /\ KeywordsOf(call.item_pattern) = <<>>) =>
         ret = None
    /\ (/\ call.op = "get_inventory_for_location"
        /\ \/ KeywordsOf(call.item_pattern) = <<>>
           \/ KeywordsOf(call.location_pattern) = <<>>) =>
         ret = None

\* C7's case: a punctuation-only location phrase, asked of a store whose
\* items the item phrase resolves.
C7_Witness ==
    /\ call.op = "get_inventory_for_location"
    /\ call.item_pattern = "pvc"
    /\ call.location_pattern = "?!"
    /\ DbExists
    /\ queries # <<>> /\ queries[1].rows # <<>>
    /\ ret = None

----------------------------------------------------------------------------
(* Claims about the classifier's answers.                                  *)

BiharQuestion == "total outstanding in Bihar"

\* C6: the Bihar total is taken over exactly the accounts whose state text
\* contains BIHAR, in any case, anywhere in it; asked as "total outstanding
\* in Bihar" of the accounts (Bihar, 5000), (Bihar West, -200),
\* (Tamil Nadu, 300), the answer reports 5,000.00: Bihar West is matched and
\* floored at zero, Tamil Nadu is not matched.
C6_StateMatchesBySubstring ==
    (Asked /\ call.handler = "bihar" /\ DbExists) =>
        /\ templates = <<"get_state_outstanding">>
        /\ Range(queries[1].rows) =
               {r \in Range(db.AMAS) :
                   /\ "STATE" \notin r.nulls
                   /\ Contains(Upper(r["STATE"]), "BIHAR")}
        /\ (call.question = BiharQuestion /\ db.AMAS = BiharAccounts) =>
               /\ ret = Txt("Total outstanding in Bihar (excluding negative balances): "
                              \o CURRENCY_PREFIX \o "5,000.00")
               /\ {r.ACOD : r \in Range(queries[1].rows)} = {"A1", "A2"}

\* C6's case: the scenario's question asked of the scenario's accounts.
C6_Witness ==
    /\ Asked
    /\ call.question = BiharQuestion
    /\ call.handler = "bihar"
    /\ db.exists /\ db.AMAS = BiharAccounts
    /\ Len(queries[1].rows) = 2

PurchaseQuestion == "purchase summary for XYZ123 item"

\* No item of the store matches any keyword of the question.
NoItemMatches(question) ==
    \A r \in Range(db.IMAS) :
        \A kw \in Range(KeywordsOf(question)) : ~ItemMatches(r, <<kw>>)

\* C8 as stated: "purchase summary for XYZ123 item", asked of a store in
\* which no item matches any keyword, is answered with a "no purchases
\* found" message.
C8_Original ==
    (Asked /\ call.question = PurchaseQuestion /\ NoItemMatches(call.question)) =>
        /\ ~IsNone(ret)
        /\ Contains(Lower(ret.text), "no ")
        /\ Contains(Lower(ret.text), "purchases")
        /\ Contains(Lower(ret.text), "found")

\* C8 as amended: "purchase summary for XYZ123 item" fires no trigger, so
\* the classifier returns the unhandled sentinel without calling a template
\* or running a statement: neither a "no purchases found" message nor a
\* zero-quantity answer.
C8_PurchaseQuestionUnhandled ==
    (Asked /\ call.question = PurchaseQuestion) =>
        /\ FiringIn(Lower(call.question)) = {}
        /\ ret = None
        /\ call.handler = "none"
        /\ templates = <<>>
        /\ queries = <<>>

\* C8's case: the question asked of a store that has items, none of which
\* matches a keyword of the question.
C8_Witness ==
    /\ Asked
    /\ call.question = PurchaseQuestion
    /\ db.exists /\ db.IMAS # <<>>
    /\ NoItemMatches(call.question)
    /\ ret = None

----------------------------------------------------------------------------
(* Claims about the aged receivables.                                      *)

AgingCall == call.op = "get_outstanding_over_days"

\* The date a row of RMAS records, if its text before any space is one.
ParsedDate(r) ==
    IF "DATE" \in r.nulls \/ r.DATE = ""
    THEN [ok |-> FALSE, y |-> 0, m |-> 0, d |-> 0]
    ELSE FromIsoFormat(BeforeSpace(r.DATE))

\* The row is dated strictly before today - days.
StrictlyOlder(r, days) ==
    ParsedDate(r).ok /\ ToOrdinal(ParsedDate(r)) < ToOrdinal(today) - days

\* C9: get_outstanding_over_days returns a list, never raises, and every
\* entry of it comes from a row whose date parses and is strictly earlier
\* than today - days: rows dated on the cutoff day or later, and rows whose
\* date is empty, NULL or not a date, are left out; the rows after such a
\* row are still examined.
C9_OnlyStrictlyOlder ==
    AgingCall =>
        /\ ret.kind = "list"
        /\ \A i \in 1..Len(ret.items) :
               \E r \in Range(db.RMAS) :
                   /\ StrictlyOlder(r, call.days)
                   /\ IsoFormat(ParsedDate(r)) = ret.items[i].date
                   /\ SafeFloat(Txt(r.BALANCE)) = ret.items[i].balance
        /\ (call.include_negative /\ call.limit >= Len(db.RMAS) /\ db.exists) =>
               Len(ret.items)
                   = Cardinality({i \in 1..Len(db.RMAS) : StrictlyOlder(db.RMAS[i], call.days)})

\* C9's case: 60 days over an older row, a row dated on the cutoff day and
\* a row whose date is no date; only the older row is returned.
C9_Witness ==
    /\ AgingCall
    /\ call.days = 60
    /\ \E i, j, k \in 1..Len(db.RMAS) :
           /\ db.RMAS[i].DATE = "2024-01-01 00:00:00"
           /\ db.RMAS[j].DATE = "2023-02-30"
           /\ db.RMAS[k].DATE = "2023-12-31" /\ j < k
    /\ call.limit = 10
    /\ Len(ret.items) = 1
    /\ ret.items[1].date = "2023-12-31"

\* The kept rows of a call: balances before sorting and cutting.
QualifyingBalances ==
    LET kept == SelectSeq(JoinRows(db.RMAS, db.AMAS, "ACOD", "ACOD"),
                          LAMBDA p : AgingKeeps(p, call.days, call.include_negative))
    IN  IF db.exists THEN BalancesOf([i \in 1..Len(kept) |-> kept[i].l]) ELSE <<>>

Min(a, b) == IF a < b THEN a ELSE b

\* C10: the entries are in non-increasing order of balance, there are
\* min(limit, qualifying rows) of them, and they are the largest qualifying
\* balances: each entry is a qualifying row of its own, and no row left out
\* has a larger balance than an entry.  Qualifying balances 500, 9000, 100
\* with limit 2 give 9000, 500.
C10_LargestFirstUpToLimit ==
    (AgingCall /\ call.limit >= 0) =>
        LET items == ret.items
            q     == QualifyingBalances
        IN  /\ \A i, j \in 1..Len(items) : i < j => items[i].balance >= items[j].balance
            /\ Len(items) = Min(call.limit, Len(q))
            /\ \E f \in [1..Len(items) -> 1..Len(q)] :
                   /\ \A i, j \in 1..Len(items) : f[i] = f[j] => i = j
                   /\ \A i \in 1..Len(items) : q[f[i]] = items[i].balance
                   /\ \A k \in 1..Len(q) :
                          (\A i \in 1..Len(items) : f[i] # k) =>
                              \A i \in 1..Len(items) : items[i].balance >= q[k]
            /\ (q = <<50000, 900000, 10000>> /\ call.limit = 2) =>
                   [i \in 1..2 |-> items[i].balance] = <<900000, 50000>>

\* C10's case: the rows at 500, 9000 and 100, all older than the cutoff,
\* with limit 2.
C10_Witness ==
    /\ AgingCall
    /\ call.limit = 2
    /\ call.days = 60
    /\ QualifyingBalances = <<50000, 900000, 10000>>
    /\ Len(ret.items) = 2
    /\ ret.items[1].balance = 900000 /\ ret.items[2].balance = 50000

----------------------------------------------------------------------------
(* Claims about the absent store and empty results.                        *)

\* A "no ... found" message, as the classifier words them.
IsNoDataMessage(text) ==
    /\ StartsWith(text, "No ")
    /\ Contains(text, " found") \/ Contains(text, " recorded")

\* C11: asked of an absent store, every statement returns no row and raises
\* nothing, and the answer to a question that fires a trigger is a
\* "no ... found" message, the Bihar and Tamil Nadu totals and the TA/DA and
\* Electricity expenses included.
C11_AbsentStoreNoDataMessage ==
    (Asked /\ ~DbExists /\ Firing # {}) =>
        /\ \A i \in 1..Len(queries) : queries[i].rows = <<>> /\ queries[i].error = "none"
        /\ ret.kind = "str"
        /\ IsNoDataMessage(ret.text)

\* C11's case: the Bihar total asked of an absent store is answered with a
\* total of 0.00.
C11_Witness ==
    /\ Asked
    /\ call.question = BiharQuestion
    /\ db = AbsentStore
    /\ queries # <<>> /\ queries[1].rows = <<>>
    /\ ret = Txt("Total outstanding in Bihar (excluding negative balances): "
                   \o CURRENCY_PREFIX \o "0.00")

\* The entity phrase of a template call resolves to nothing: no keyword is
\* extracted from it, or no row of the table it is matched against matches.
ResolvesNothing ==
    CASE call.op = "get_company_outstanding" ->
            \/ KeywordsOf(call.company_name) = <<>>
            \/ \A r \in Range(db.AMAS) : ~LikeAll(Col(r, "ANAM"), KeywordsOf(call.company_name))
      [] call.op = "get_state_outstanding" ->
            \/ KeywordsOf(call.state) = <<>>
            \/ \A r \in Range(db.AMAS) : ~LikeAll(Col(r, "STATE"), KeywordsOf(call.state))
      [] call.op = "get_expense_amount" ->
            \/ KeywordsOf(call.keyword) = <<>>
            \/ \A r \in Range(db.AMAS) : ~LikeAny(Col(r, "ANAM"), KeywordsOf(call.keyword))
      [] call.op = "get_purchase_summary" ->
            \/ KeywordsOf(call.item_pattern) = <<>>
            \/ \A r \in Range(db.IMAS) : ~ItemMatches(r, KeywordsOf(call.item_pattern))
      [] call.op = "get_inventory_for_location" ->
            \/ KeywordsOf(call.item_pattern) = <<>>
            \/ \A r \in Range(db.IMAS) : ~ItemMatches(r, KeywordsOf(call.item_pattern))
            \/ KeywordsOf(call.location_pattern) = <<>>
            \/ \A r \in Range(db.DEPT) :
                   ~LikeAny(Col(r, "DNDEPT"), KeywordsOf(call.location_pattern))
      [] OTHER -> FALSE

\* An explicit no-data result of a template, which no aggregate over
\* matched rows can be: None for the templates returning a record, the empty
\* list for the per-account list, and no number at all for the templates
\* returning a total (0 is the total of matched rows that sum to zero).
IsNoDataResult(op, v) ==
    CASE op \in {"get_purchase_summary", "get_inventory_for_location"} -> v = None
      [] op = "get_company_outstanding" -> v = List(<<>>)
      [] op \in {"get_state_outstanding", "get_expense_amount"} -> v.kind # "num"
      [] OTHER -> TRUE

\* C12: each of the five templates that take an entity phrase returns, for
\* a phrase that resolves to nothing, an explicit no-data result that differs
\* from what it returns for matched rows whose aggregate is zero.
C12_NoDataIsDistinct ==
    ResolvesNothing => IsNoDataResult(call.op, ret)

\* C12's case: a punctuation-only state phrase, asked of a store with
\* accounts, returns the total 0.
C12_Witness ==
    /\ call.op = "get_state_outstanding"
    /\ call.state = "?!"
    /\ DbExists /\ db.AMAS # <<>>
    /\ ResolvesNothing
    /\ ret = Num(0)

----------------------------------------------------------------------------
(* Claims about numeric parsing and the balance policy.                    *)

\* The amount texts of the store's rows, in row order.
StoredTexts == [i \in 1..Len(db.AMAS) |-> Col(db.AMAS[i], "BALANCE")]

\* What a stored text is worth, in hundredths: the number it writes when it
\* is a well-formed number (blanks and thousands separators aside), zero
\* otherwise.
AmountValue(v) ==
    CASE v = Txt("1,234.50") -> 123450
      [] v = Txt(" 5000.0 ") -> 500000
      [] v = Txt("-200") -> 0 - 20000
      [] OTHER -> 0

StoredTotal == SeqSum([i \in 1..Len(StoredTexts) |-> AmountValue(StoredTexts[i])])

\* C13: whatever the stored texts, no template raises, and every total is
\* the sum of the values of the well-formed texts, the others counting for
\* zero, alike where _safe_float parses the text (balances) and where the
\* statement's SUM(CAST(...)) does (quantities and amounts).
C13_ZeroOnFailureUniform ==
    /\ call # NoCall => ret.kind # "raise"
    /\ (call.op = "get_state_outstanding" /\ call.include_negative) => ret = Num(StoredTotal)
    /\ (call.op = "get_company_outstanding" /\ call.include_negative) =>
           [i \in 1..Len(ret.items) |-> ret.items[i].balance]
               = [i \in 1..Len(StoredTexts) |-> AmountValue(StoredTexts[i])]
    /\ call.op = "get_purchase_summary" =>
           ret.qty = StoredTotal /\ ret.amount = StoredTotal
    /\ call.op = "get_expense_amount" => ret = Num(StoredTotal)
    /\ call.op = "get_inventory_for_location" => ret.qty = StoredTotal
    /\ call.op = "get_sales_for_month" =>
           \A i \in 1..Len(ret.items) : ret.items[i].amount = StoredTotal

\* C13's case: the quantity text "12abc", which _safe_float parses to zero,
\* counts for 12 in the inventory total.
C13_Witness ==
    /\ call.op = "get_inventory_for_location"
    /\ StoredTexts = <<Txt("12abc")>>
    /\ db.DEPI[1].OSTQTY = "12abc"
    /\ SafeFloat(Txt(db.DEPI[1].OSTQTY)) = 0
    /\ ret.qty = 1200

----------------------------------------------------------------------------
(* Claims about the classifier's effects and its return.                   *)

\* C14: no call of answer_business_question changes the store: after the
\* call every table holds what it held before, a store file that was absent
\* is still absent, and a connection was opened for a statement only when
\* the file existed.
C14_StoreNeverChanges ==
    [][/\ db' = db
       /\ \A i \in 1..Len(queries') : queries'[i].connected => db.exists]_vars

\* C14's case: a question whose template ran statements, asked of an absent
\* store, which is still absent after the call.
C14_Witness ==
    /\ Asked
    /\ call.handler = "pvc_pipe_jaipur"
    /\ queries # <<>>
    /\ \A i \in 1..Len(queries) : ~queries[i].connected
    /\ db = AbsentStore

----------------------------------------------------------------------------
(* Claims about the formatter and the keyword extractor.                   *)

\* The rupee sign U+20B9, written as the model writes characters outside
\* ASCII: by its code point.
RUPEE == "<U+20B9>"

\* body writes the amount of n hundredths with an optional minus sign, the
\* whole part in groups of three digits separated by commas, a point, and
\* exactly two decimals.
IsGroupedTwoDecimals(body, n) ==
    LET mag   == IF n < 0 THEN 0 - n ELSE n
        u     == IF n < 0 THEN SubSeq(body, 2, Len(body)) ELSE body
        whole == SubSeq(u, 1, Len(u) - 3)
        frac  == SubSeq(u, Len(u) - 1, Len(u))
    IN  /\ n < 0 => StartsWith(body, "-")
        /\ Len(u) >= 4
        /\ CharAt(u, Len(u) - 2) = "."
        /\ AllDigits(frac) /\ DigitsVal(frac) = mag % 100
        /\ Len(whole) % 4 # 0
        /\ \A i \in 1..Len(whole) :
               IF (Len(whole) - i + 1) % 4 = 0 THEN CharAt(whole, i) = ","
               ELSE IsDigit(CharAt(whole, i))
        /\ Len(whole) > 1 => CharAt(whole, 1) # "0"
        /\ DigitsVal(RemoveChar(whole, ",")) = mag \div 100

\* C16: format_currency renders an amount as the rupee sign followed by the
\* value with thousands separators and exactly two decimals, 1234.5 as the
\* rupee sign and 1,234.50, and the same amount always as the same string.
C16_RupeeGroupedTwoDecimals ==
    call.op = "format_currency" =>
        /\ StartsWith(ret.text, RUPEE)
        /\ IsGroupedTwoDecimals(SubSeq(ret.text, Len(RUPEE) + 1, Len(ret.text)), call.amount)
        /\ call.amount = 123450 => ret.text = RUPEE \o "1,234.50"
        /\ ret.text = FormatCurrency(call.amount)

\* C16's case: 1234.5 is rendered with the three characters U+00E2 U+201A
\* U+00B9 in front of 1,234.50.
C16_Witness ==
    /\ call.op = "format_currency"
    /\ call.amount = 123450
    /\ ret.text = "<U+00E2><U+201A><U+00B9>1,234.50"
    /\ ~StartsWith(ret.text, RUPEE)

\* The characters of the class [A-Z0-9&].
KeywordChars == {CharAt(UpperAlpha \o Digits \o "&", i) : i \in 1..37}

\* The positions in u at which a maximal run of keyword characters starts.
RunStarts(u) ==
    {i \in 1..Len(u) :
        /\ CharAt(u, i) \in KeywordChars
        /\ i = 1 \/ CharAt(u, i - 1) \notin KeywordChars}

\* The last position of the run that starts at i.
RunEnd(u, i) ==
    CHOOSE j \in i..Len(u) :
        /\ \A k \in i..j : CharAt(u, k) \in KeywordChars
        /\ j = Len(u) \/ CharAt(u, j + 1) \notin KeywordChars

\* C17: _extract_keywords returns the maximal runs of [A-Z0-9&] of the
\* upper-cased text, in the order they occur and each once: every token is
\* non-empty and made of those characters only (so none holds % or _), and
\* a text without such a character gives the empty list.
C17_MaximalRuns ==
    call.op = "_extract_keywords" =>
        LET u      == Upper(call.text)
            tokens == ret.items
        IN  /\ Len(tokens) = Cardinality(RunStarts(u))
            /\ \A k \in 1..Len(tokens) :
                   LET i == CHOOSE s \in RunStarts(u) :
                                Cardinality({r \in RunStarts(u) : r < s}) = k - 1
                   IN  tokens[k] = SubSeq(u, i, RunEnd(u, i))
            /\ \A k \in 1..Len(tokens) :
                   /\ tokens[k] # ""
                   /\ \A p \in 1..Len(tokens[k]) : CharAt(tokens[k], p) \in KeywordChars
            /\ (\A p \in 1..Len(u) : CharAt(u, p) \notin KeywordChars) => tokens = <<>>

\* C17's case: two runs separated by an underscore, and lower case folded.
C17_Witness ==
    /\ call.op = "_extract_keywords"
    /\ call.text = "a_B"
    /\ ret.items = <<"A", "B">>

----------------------------------------------------------------------------
(* Claims about the purchase summary and the inventory.                    *)

\* The keys of the accounts whose name contains every keyword of the phrase.
VendorKeys(phrase) ==
    {a.ACOD : a \in {r \in Range(db.AMAS) :
                        /\ "ACOD" \notin r.nulls /\ r.ACOD # ""
                        /\ "ANAM" \notin r.nulls
                        /\ \A kw \in Range(KeywordsOf(phrase)) : Contains(Upper(r.ANAM), kw)}}

\* The vendor phrase resolves to no account key.
VendorResolvesNothing(phrase) ==
    KeywordsOf(phrase) = <<>> \/ ~DbExists \/ VendorKeys(phrase) = {}

\* C18: when get_purchase_summary is given a vendor phrase that resolves to
\* no account key, it returns None, and the purchase statement is not run
\* at all, so not without the vendor condition either.
C18_VendorRequired ==
    (/\ call.op = "get_purchase_summary"
     /\ Truthy(call.vendor_pattern)
     /\ VendorResolvesNothing(call.vendor_pattern.text)) =>
        /\ ret = None
        /\ \A i \in 1..Len(queries) : queries[i].from # "SITM JOIN PRCH"

\* C18's case: the item phrase resolves, the store has accounts and
\* purchases, and no account is named as the vendor phrase says.
C18_Witness ==
    /\ call.op = "get_purchase_summary"
    /\ call.item_pattern = "pvc"
    /\ call.vendor_pattern = Txt("Meera")
    /\ Len(queries) = 2 /\ queries[1].rows # <<>>
    /\ db.AMAS # <<>> /\ db.SITM # <<>>
    /\ VendorKeys("Meera") = {}
    /\ ret = None

\* The keys of the items of which the alias or the key contains every
\* keyword of the phrase.
ItemKeys(phrase) ==
    {r.ICIMAS : r \in {i \in Range(db.IMAS) :
                          /\ "ICIMAS" \notin i.nulls /\ i.ICIMAS # ""
                          /\ ItemMatches(i, KeywordsOf(phrase))}}

\* The keys of the departments whose name contains some keyword of the
\* phrase.
DeptKeys(phrase) ==
    {r.DCDEPT : r \in {d \in Range(db.DEPT) :
                          /\ "DCDEPT" \notin d.nulls /\ d.DCDEPT # ""
                          /\ LikeAny(Col(d, "DNDEPT"), KeywordsOf(phrase))}}

\* The arguments of the three purchase questions.
PurchaseArgs(handler) ==
    CASE handler = "pvc_resin_meera" -> [item |-> "PVC resin", vendor |-> "Meera Polymers", year |-> ""]
      [] handler = "ll_2025" -> [item |-> "LL", vendor |-> "", year |-> "2025"]
      [] handler = "hd_2024" -> [item |-> "HD", vendor |-> "", year |-> "2024"]

\* The purchase lines, with their headers, that a purchase question is
\* about: of type Prch, of a resolved item, from a resolved vendor when one
\* is named, dated in the year when one is named.
MatchingPurchases(a) ==
    {<<l, h>> \in Range(db.SITM) \X Range(db.PRCH) :
        /\ l.nulls \cap {"VHNO", "VHTY", "ICSITM"} = {}
        /\ h.nulls \cap {"VHNO", "VCPRCH", "BDPRCH"} = {}
        /\ l.VHNO = h.VHNO
        /\ l.VHTY = "Prch"
        /\ l.ICSITM \in ItemKeys(a.item)
        /\ a.vendor # "" => h.VCPRCH \in VendorKeys(a.vendor)
        /\ a.year # "" => StartsWith(h.BDPRCH, a.year)}

\* C19: a purchase question whose item phrase (and vendor phrase) resolves
\* but which no purchase line matches, and the Jaipur inventory question
\* whose item and department resolve but which no inventory row matches,
\* are answered with the "No ... found" or "No ... recorded" message, not
\* with a total of zero.
C19_EmptyResultIsNoDataMessage ==
    /\ (/\ Asked /\ DbExists
        /\ call.handler \in {"pvc_resin_meera", "ll_2025", "hd_2024"}
        /\ ItemKeys(PurchaseArgs(call.handler).item) # {}
        /\ PurchaseArgs(call.handler).vendor # "" =>
               VendorKeys(PurchaseArgs(call.handler).vendor) # {}
        /\ MatchingPurchases(PurchaseArgs(call.handler)) = {}) =>
           ret.kind = "str" /\ IsNoDataMessage(ret.text)
    /\ (/\ Asked /\ DbExists
        /\ call.handler = "pvc_pipe_jaipur"
        /\ ItemKeys("PVC pipe") # {} /\ DeptKeys("Jaipur") # {}
        /\ \A r \in Range(db.DEPI) :
               ~(r.DCDEPI \in DeptKeys("Jaipur") /\ r.ICDEPI \in ItemKeys("PVC pipe"))) =>
           ret.kind = "str" /\ IsNoDataMessage(ret.text)

\* C19's case: an LLDPE item is on file, no purchase line is of it, and the
\* LL question is answered with totals of 0.00.
C19_Witness ==
    /\ Asked
    /\ call.question = "LL purchase in 2025"
    /\ db = LedgerStore
    /\ ItemKeys("LL") = {"L1"}
    /\ MatchingPurchases(PurchaseArgs("ll_2025")) = {}
    /\ ret = Txt("Total LL purchases during 2025: Qty=0.00, Amount="
                   \o CURRENCY_PREFIX \o "0.00")

----------------------------------------------------------------------------
(* Claims about the balance policy.                                        *)

\* The balances of the entries a call returned, in their order.
EntryBalances == [i \in 1..Len(ret.items) |-> ret.items[i].balance]

\* How often v occurs in seq.
Count(seq, v) == Cardinality({i \in 1..Len(seq) : seq[i] = v})

\* The two sequences hold the same values, each as often.
SameBag(a, b) == \A v \in Range(a) \cup Range(b) : Count(a, v) = Count(b, v)

\* The values of the stored balances, one per row.
StoredValues == [i \in 1..Len(StoredTexts) |-> AmountValue(StoredTexts[i])]

\* C20: get_company_outstanding and get_outstanding_over_days treat the
\* balance alike.  Without include_negative the entries are those of the
\* rows whose balance is above zero (a zero, negative, empty, NULL or
\* unparsable balance drops the row); with it, no row is dropped.
C20_SameBalancePolicy ==
    call.op \in {"get_company_outstanding", "get_outstanding_over_days"} =>
        IF call.include_negative
        THEN /\ Len(ret.items) = Len(StoredTexts)
             /\ SameBag(EntryBalances, StoredValues)
        ELSE /\ \A i \in 1..Len(ret.items) : ret.items[i].balance > 0
             /\ SameBag(EntryBalances, SelectSeq(StoredValues, LAMBDA v : v > 0))

\* C20's case: the aged receivables without include_negative over a
\* negative and a positive balance; only the positive one is returned.
C20_Witness ==
    /\ call.op = "get_outstanding_over_days"
    /\ ~call.include_negative
    /\ StoredTexts = <<Txt("-200"), Txt("1,234.50")>>
    /\ Len(queries[1].rows) = 2
    /\ EntryBalances = <<123450>>

----------------------------------------------------------------------------
(* Claims about the order of the aged receivables and the flag.            *)

\* The magnitude of a balance.
Abs(n) == IF n < 0 THEN 0 - n ELSE n

\* C21: the entries of get_outstanding_over_days are in non-increasing order
\* of the magnitude (absolute value) of their balance, and the cut to the
\* limit keeps the entries of largest magnitude, also when include_negative
\* lets negative balances in.
C21_SortedByMagnitude ==
    (AgingCall /\ call.limit >= 0) =>
        /\ \A i, j \in 1..Len(ret.items) :
               i < j => Abs(ret.items[i].balance) >= Abs(ret.items[j].balance)
        /\ Len(ret.items) = Min(call.limit, Len(QualifyingBalances))
        /\ \A v \in Range(QualifyingBalances) :
               Count(QualifyingBalances, v) > Count(EntryBalances, v) =>
                   \A i \in 1..Len(ret.items) : Abs(ret.items[i].balance) >= Abs(v)

\* C21's case: include_negative over the rows at 100 and -250, both older
\* than the cutoff and within the limit; the entry at 100 comes first.
C21_Witness ==
    /\ AgingCall
    /\ call.include_negative
    /\ call.limit = 2
    /\ QualifyingBalances = <<10000, 0 - 25000>>
    /\ EntryBalances = <<10000, 0 - 25000>>

\* The store file, when there is one, holds the tables of the schema.
Conforming == db.exists => db.tables

\* The seven phrases that ask for the negative balances.
SevenPhrases ==
    {"show negative", "include negative", "also show negative", "include credits",
     "show credits", "negative values", "credit balances"}

\* The flag of the question of the call.
FlagOfQuestion == \E p \in SevenPhrases : Contains(Lower(call.question), p)

\* A message without a word about negative balances.
DescriptorFree(text) == StartsWith(text, "No outstanding ")

\* What the branch of the call answers when its template is given the flag.
AnswerWithFlag(include_negative) ==
    CASE call.handler = "aged_receivables" -> AnswerAging(include_negative).value
      [] call.handler = "bihar" -> AnswerState("bihar", "Bihar", include_negative).value
      [] call.handler = "tamil_nadu" ->
             AnswerState("tamil_nadu", "Tamil Nadu", include_negative).value
      [] call.handler = "outstanding_for_name" ->
             AnswerCompany(call.question, include_negative).value

\* The lines of a text.
RECURSIVE Lines(_)
Lines(text) ==
    LET at == {i \in 1..Len(text) : CharAt(text, i) = "\n"}
    IN  IF at = {} THEN <<text>>
        ELSE LET i == CHOOSE k \in at : \A j \in at : k <= j
             IN  <<SubSeq(text, 1, i - 1)>> \o Lines(SubSeq(text, i + 1, Len(text)))

\* The bullet lines of an answer: its lines but the first.
Bullets(text) == Tail(Lines(text))

EndsWith(s, p) == Len(p) <= Len(s) /\ SubSeq(s, Len(s) - Len(p) + 1, Len(s)) = p

\* The answer is the one for what the template of its branch returns when
\* called with include_negative: a bullet line per entry, or the total.
AnswersTemplateOf(include_negative) ==
    CASE call.handler = "aged_receivables" ->
             LET aging == get_outstanding_over_days(60, 10, include_negative).value
             IN  IF aging = <<>> THEN DescriptorFree(ret.text)
                 ELSE Len(Bullets(ret.text)) = Len(aging)
      [] call.handler = "bihar" ->
             EndsWith(ret.text, "): " \o FormatCurrency(
                 get_state_outstanding("Bihar", include_negative).value))
      [] call.handler = "tamil_nadu" ->
             EndsWith(ret.text, "): " \o FormatCurrency(
                 get_state_outstanding("Tamil Nadu", include_negative).value))
      [] call.handler = "outstanding_for_name" ->
             LET results == get_company_outstanding(
                                Strip(SearchOutstanding(call.question).group),
                                include_negative).value
             IN  IF results = <<>> THEN DescriptorFree(ret.text)
                 ELSE Len(Bullets(ret.text)) = Len(results)

\* The word the answer describes the negative balances with, "" when it has
\* none (the "No ... found" messages).
DescriptorIn(text) ==
    IF Contains(text, " (including negative ") THEN "including"
    ELSE IF Contains(text, " (excluding negative ") THEN "excluding"
    ELSE ""

\* C22: the flag is set exactly by the seven phrases, looked for in the
\* lowered question; the aged-receivables, state and company branches answer
\* with what their template returns for that flag, and the answer says
\* "including" when the flag is set and "excluding" when it is not.
C22_FlagThreaded ==
    (Asked /\ call.handler \in {"aged_receivables", "bihar", "tamil_nadu", "outstanding_for_name"}
           /\ templates # <<>> /\ Conforming) =>
        /\ ret = AnswerWithFlag(FlagOfQuestion)
        /\ AnswersTemplateOf(FlagOfQuestion)
        /\ DescriptorIn(ret.text) \in {"", IF FlagOfQuestion THEN "including" ELSE "excluding"}
        /\ call.handler \in {"bihar", "tamil_nadu"} => DescriptorIn(ret.text) # ""
        /\ DescriptorIn(ret.text) = "" => DescriptorFree(ret.text)

\* C22's case: the Bihar total asked with "credit balances" over accounts at
\* 5000 and -200; the flag is set, the total is the signed sum and the answer
\* says "including".
C22_Witness ==
    /\ Asked
    /\ call.question = "total outstanding in Bihar, credit balances"
    /\ db.AMAS = BiharAccounts
    /\ FlagOfQuestion
    /\ ret = Txt("Total outstanding in Bihar (including negative balances): "
                   \o CURRENCY_PREFIX \o "4,800.00")

----------------------------------------------------------------------------
(* Claims about the resolvers.                                             *)

\* The keyword occurs in the column of the row as a substring, whatever the
\* case of either; a NULL column holds nothing.
OccursIn(r, c, kw) ==
    /\ c \notin r.nulls
    /\ \E i \in 1..Len(r[c]) :
           i + Len(kw) - 1 <= Len(r[c]) /\ Lower(SubSeq(r[c], i, i + Len(kw) - 1)) = Lower(kw)

\* The item rows in which every keyword of the phrase occurs in the alias or
\* in the key.
ItemRowsOf(phrase) ==
    {r \in Range(db.IMAS) :
        \A kw \in Range(KeywordsOf(phrase)) : OccursIn(r, "IALIAS", kw) \/ OccursIn(r, "ICIMAS", kw)}

\* C23: for a phrase with keywords, _find_item_codes returns the non-empty
\* keys of the item rows in which every keyword occurs, in any case, as a
\* substring of the alias or of the key (one keyword may be found in the
\* alias and another in the key); each key once.
C23_ItemKeysExact ==
    (call.op = "_find_item_codes" /\ DbExists /\ KeywordsOf(call.pattern) # <<>>) =>
        /\ ret.kind = "list"
        /\ Range(ret.items)
             = {r.ICIMAS : r \in {i \in ItemRowsOf(call.pattern) :
                                     "ICIMAS" \notin i.nulls /\ i.ICIMAS # ""}}
        /\ \A i, j \in 1..Len(ret.items) : ret.items[i] = ret.items[j] => i = j

\* C23's case: "pvc Resin" over two rows of the item PVC2 "Resin pipe",
\* which holds one keyword in its key and the other in its alias; the key is
\* returned, once.
C23_Witness ==
    /\ call.op = "_find_item_codes"
    /\ call.pattern = "pvc Resin"
    /\ db.IMAS = <<Item("PVC2", "Resin pipe"), Item("PVC2", "Resin pipe")>>
    /\ ret.items = <<"PVC2">>

\* The departments whose name holds every keyword of the phrase.
DeptRowsOf(phrase) ==
    {d \in Range(db.DEPT) : \A kw \in Range(KeywordsOf(phrase)) : OccursIn(d, "DNDEPT", kw)}

\* C24: the department of get_inventory_for_location is resolved like every
\* other entity: a department counts only if its name holds all the keywords
\* of the location phrase, so a phrase that no department's name holds
\* entirely gives no result (None), not the stock of departments that hold
\* some of its keywords.
C24_DepartmentConjunctive ==
    (/\ call.op = "get_inventory_for_location"
     /\ KeywordsOf(call.location_pattern) # <<>>
     /\ DeptRowsOf(call.location_pattern) = {}) =>
        ret = None

\* C24's case: "Patna Jaipur" over the departments "Jaipur Depot" and "Patna
\* Depot", neither of which holds both keywords; the stock of both is
\* returned.
C24_Witness ==
    /\ call.op = "get_inventory_for_location"
    /\ call.item_pattern = "pvc"
    /\ call.location_pattern = "Patna Jaipur"
    /\ db.IMAS = ScenarioStore.IMAS /\ db.DEPT = ScenarioStore.DEPT
    /\ db.DEPI = ScenarioStore.DEPI
    /\ DeptRowsOf(call.location_pattern) = {}
    /\ ret # None /\ ret.kind = "dict" /\ ret.qty = 129750

----------------------------------------------------------------------------
(* Claims about the expenses and the sales.                                *)

ExpenseCall == call.op = "get_expense_amount"

\* The keywords of the location of the call; none without a location.
LocationKeywords ==
    IF IsNone(call.location) THEN {} ELSE Range(KeywordsOf(call.location.text))

\* The month the call restricts the lines to; 0 when it restricts to none.
MonthOfCall == IF IsNone(call.month) THEN 0 ELSE call.month.val

\* The account of an expense line is named by some keyword of the call.
NamedAccount(line, a) ==
    /\ "COD1" \notin line.nulls /\ "ACOD" \notin a.nulls /\ line.COD1 = a.ACOD
    /\ \E kw \in Range(KeywordsOf(call.keyword)) : OccursIn(a, "ANAM", kw)

\* The account lies where some keyword of the location says.
LocatedAccount(a) ==
    \E kw \in LocationKeywords : OccursIn(a, "CITY", kw) \/ OccursIn(a, "STATE", kw)

\* The date in column c of the row has the month, two digits, in positions
\* 6 and 7.
InMonth(r, c, m) ==
    /\ c \notin r.nulls
    /\ Len(r[c]) >= 7
    /\ SubSeq(r[c], 6, 7) = (IF m < 10 THEN "0" ELSE "") \o ToString(m)

\* The expense lines the call is about.
ExpenseLinesOfCall ==
    SelectSeq(db.TMAS, LAMBDA line :
        \E a \in Range(db.AMAS) :
            /\ NamedAccount(line, a)
            /\ LocationKeywords # {} => LocatedAccount(a)
            /\ MonthOfCall \in 1..12 => InMonth(line, "DATE", MonthOfCall))

\* C25: get_expense_amount returns the sum of the parsed amounts of the
\* expense lines whose account's name holds any keyword of the phrase, of
\* those only whose account's city or state holds a keyword of the location
\* when the location has keywords, and of those only dated in the month when
\* a month from 1 to 12 is given.
C25_ExpenseSumOfAnyKeyword ==
    (ExpenseCall /\ Conforming) =>
        ret = Num(SeqSum([i \in 1..Len(ExpenseLinesOfCall) |->
                            SafeFloat(Col(ExpenseLinesOfCall[i], "AMNT"))]))

\* C25's case: "TA DA" for Delhi in August over accounts that hold one
\* keyword each; the one in Delhi has a line in August, which is the sum.
C25_Witness ==
    /\ ExpenseCall
    /\ call.keyword = "TA DA" /\ call.location = Txt("Delhi") /\ call.month = Num(8)
    /\ db.AMAS = LedgerStore.AMAS /\ db.TMAS = LedgerStore.TMAS
    /\ Len(ExpenseLinesOfCall) = 1
    /\ ret = Num(30000)

\* The sales of the month of the call, and the years they are dated in.
SalesOfMonth == SelectSeq(db.SALE, LAMBDA r : InMonth(r, "BDSALE", call.month))

YearOf(r) == SubSeq(r.BDSALE, 1, 4)

\* The rows the template of a multi-row answer returned, as the texts its
\* bullet lines begin and end with.
BulletsOfTemplate ==
    CASE call.handler = "october_sales" ->
             LET sales == get_sales_for_month(10).value
             IN  [i \in 1..Len(sales) |->
                    [head |-> "- " \o sales[i].year \o ": ", amount |-> sales[i].amount]]
      [] call.handler = "aged_receivables" ->
             LET aging == get_outstanding_over_days(60, 10, FlagOfQuestion).value
             IN  [i \in 1..Len(aging) |->
                    [head |-> "- " \o PyStr(aging[i].name) \o " (",
                     amount |-> aging[i].balance]]
      [] call.handler = "outstanding_for_name" ->
             LET results == get_company_outstanding(
                                Strip(SearchOutstanding(call.question).group),
                                FlagOfQuestion).value
             IN  [i \in 1..Len(results) |->
                    [head |-> "- " \o PyStr(results[i].company) \o " (",
                     amount |-> results[i].balance]]

\* C26: get_sales_for_month(m), m from 1 to 12, returns one entry for every
\* year (the first four characters of the date, when not empty) that has a
\* sale dated in month m, two digits, with the sum of the amounts of that
\* year's sales of the month, the years ascending.  An answer of the
\* classifier with rows is a header line and then one bullet line for each
\* row its template returned, in the template's order.
C26_SalesByYearAndBullets ==
    /\ (call.op = "get_sales_for_month" /\ call.month \in 1..12 /\ Conforming) =>
         /\ ret.kind = "list"
         /\ {ret.items[i].year : i \in 1..Len(ret.items)}
              = {YearOf(SalesOfMonth[k]) : k \in 1..Len(SalesOfMonth)} \ {""}
         /\ \A i \in 1..Len(ret.items) :
                LET ofYear == SelectSeq(SalesOfMonth, LAMBDA r : YearOf(r) = ret.items[i].year)
                IN  ret.items[i].amount
                      = SeqSum([k \in 1..Len(ofYear) |-> SafeFloat(Col(ofYear[k], "TOTAL1"))])
         /\ \A i, j \in 1..Len(ret.items) :
                i < j => TextLess(ret.items[i].year, ret.items[j].year)
    /\ (/\ Asked
        /\ call.handler \in {"october_sales", "aged_receivables", "outstanding_for_name"}
        /\ templates # <<>>
        /\ Conforming
        /\ BulletsOfTemplate # <<>>) =>
         /\ Len(Lines(ret.text)) = 1 + Len(BulletsOfTemplate)
         /\ ~StartsWith(Lines(ret.text)[1], "- ")
         /\ \A i \in 1..Len(BulletsOfTemplate) :
                /\ StartsWith(Bullets(ret.text)[i], BulletsOfTemplate[i].head)
                /\ EndsWith(Bullets(ret.text)[i],
                            ": " \o FormatCurrency(BulletsOfTemplate[i].amount))

\* C26's case: the sales of October over dates of five years, not stored in
\* the order of the years, with an amount that is no number, a NULL amount
\* and a date with a time; five entries, the years ascending.
C26_Witness ==
    /\ call.op = "get_sales_for_month"
    /\ call.month = 10
    /\ db.SALE = ArchiveStore.SALE
    /\ ret.items = <<[year |-> "2021", amount |-> 700], [year |-> "2023", amount |-> 200125],
                     [year |-> "2024", amount |-> 0], [year |-> "2025", amount |-> 500],
                     [year |-> "24-1", amount |-> 300]>>

----------------------------------------------------------------------------
(* Claims about the connections.                                           *)

\* What a call did to its connections, statement after statement.
ConnectionTrace == Flatten([i \in 1..Len(queries) |-> queries[i].events])

\* The connections open after the first k events of a trace.
OpenAfter(trace, k) ==
    Cardinality({i \in 1..k : trace[i] = "connect"})
        - Cardinality({i \in 1..k : trace[i] = "close"})

\* C27: a statement that opened a connection has closed it when _run_query
\* returns its rows and when the exception of execute leaves it; during a
\* call there is never more than one connection open, and none when the
\* call returns or raises.  A statement that raises is the last of its call.
C27_ConnectionsClosed ==
    call # NoCall =>
        /\ \A i \in 1..Len(queries) :
               LET ev == queries[i].events
               IN  /\ queries[i].connected <=> ev # <<>>
                   /\ \A k \in 1..Len(ev) :
                          ev[k] \in {"return", "raise"} => OpenAfter(ev, k) = 0
                   /\ queries[i].error # "none" => ev # <<>> /\ ev[Len(ev)] = "raise"
                   /\ queries[i].error # "none" => i = Len(queries)
        /\ \A k \in 0..Len(ConnectionTrace) : OpenAfter(ConnectionTrace, k) \in {0, 1}
        /\ OpenAfter(ConnectionTrace, Len(ConnectionTrace)) = 0
        /\ ret.kind = "raise" <=> \E i \in 1..Len(queries) : queries[i].error # "none"

\* C27's case: a question asked of a store file without tables; the
\* statement raises, the connection is closed before the exception leaves.
C27_Witness ==
    /\ Asked
    /\ db = BlankStore
    /\ ret = Raised("OperationalError")
    /\ Len(queries) = 1
    /\ queries[1].events = <<"connect", "execute", "close", "raise">>

----------------------------------------------------------------------------
(* Claims about the outstanding balance of a named company.                *)

\* The positions of the question at which "outstanding of " or
\* "outstanding for ", in any case, is followed by a character that is no
\* comma, period or question mark; each with the position of that character.
NameStarts(question) ==
    {<<i, i + n>> : i \in 1..Len(question), n \in {15, 16}} \cap
    {p \in (1..Len(question)) \X (1..Len(question)) :
        /\ Lower(SubSeq(question, p[1], p[2] - 1)) \in {"outstanding of ", "outstanding for "}
        /\ CharAt(question, p[2]) \notin {",", ".", "?"}}

\* The name a question asks the outstanding balance of: from the first such
\* position to the next comma, period or question mark or the end, without
\* the blanks around it.
NameAsked(question) ==
    LET first == CHOOSE p \in NameStarts(question) :
                     \A o \in NameStarts(question) : p[1] <= o[1]
        ends  == {j \in first[2]..Len(question) : CharAt(question, j) \in {",", ".", "?"}}
        last  == IF ends = {} THEN Len(question)
                 ELSE (CHOOSE j \in ends : \A k \in ends : j <= k) - 1
    IN  Strip(SubSeq(question, first[2], last))

\* The accounts whose name holds every keyword of the name asked, of which
\* the balance passes the policy of the flag.
AccountsAsked(question) ==
    SelectSeq(db.AMAS, LAMBDA a :
        /\ KeywordsOf(NameAsked(question)) # <<>>
        /\ \A kw \in Range(KeywordsOf(NameAsked(question))) : OccursIn(a, "ANAM", kw)
        /\ FlagOfQuestion \/ SafeFloat(Col(a, "BALANCE")) > 0)

\* C28: a question that reaches the last branch (it contains "outstanding"
\* and fires no trigger before it) and names nothing after "outstanding of"
\* or "outstanding for" is answered with None, and no statement is run.
\* Otherwise get_company_outstanding is called with the name asked, which
\* runs to the first comma, period or question mark: the answer quotes that
\* name, and lists the accounts that hold all of its keywords, the words of
\* an include-negative phrase not set off by such a mark among them.
C28_CompanyPhrase ==
    (Asked /\ call.handler = "outstanding_for_name" /\ Conforming) =>
        IF NameStarts(call.question) = {}
        THEN ret = None /\ templates = <<>> /\ queries = <<>>
        ELSE /\ templates = <<"get_company_outstanding">>
             /\ IF AccountsAsked(call.question) = <<>>
                THEN ret = Txt("No outstanding balances found for "
                                 \o NameAsked(call.question) \o ".")
                ELSE /\ StartsWith(ret.text, "Outstanding for " \o NameAsked(call.question)
                                               \o " (" \o Descriptor(FlagOfQuestion))
                     /\ Len(Bullets(ret.text)) = Len(AccountsAsked(call.question))
                     /\ \A i \in 1..Len(AccountsAsked(call.question)) :
                            StartsWith(Bullets(ret.text)[i],
                                       "- " \o PyStr(Col(AccountsAsked(call.question)[i], "ANAM")))

\* C28's case: "show credits" follows the name without a mark; it sets the
\* flag and is part of the name, whose keywords no account holds, though
\* Acme Traders is an account.
C28_Witness ==
    /\ Asked
    /\ call.question = "outstanding of Acme Traders show credits"
    /\ db.AMAS = BiharAccounts
    /\ FlagOfQuestion
    /\ NameAsked(call.question) = "Acme Traders show credits"
    /\ queries # <<>> /\ queries[1].rows = <<>>
    /\ ret = Txt("No outstanding balances found for Acme Traders show credits.")

\* The location and the month of the call, None in place of a location
\* without keywords and of a month of 0.
LocationThatCounts == IF LocationKeywords = {} THEN None ELSE call.location

MonthThatCounts == IF MonthOfCall = 0 THEN None ELSE call.month

\* C29: a location from which no keyword is extracted, and a month of 0 or
\* None, restrict nothing in get_expense_amount: the result is that of the
\* call without the argument.  A vendor phrase that is given to
\* get_purchase_summary and has no keyword gives no result (None).
C29_KeywordlessLocationNoFilter ==
    /\ (ExpenseCall /\ Conforming) =>
         ret = Num(get_expense_amount(call.keyword, LocationThatCounts, MonthThatCounts).value)
    /\ (/\ call.op = "get_purchase_summary" /\ Conforming
        /\ Truthy(call.vendor_pattern)
        /\ KeywordsOf(call.vendor_pattern.text) = <<>>) =>
         ret = None

\* C29's case: the electricity expenses with the location "?!" and the
\* month 0 over lines of two months; the sum is that of all the lines, which
\* is neither the sum for a location nor the sum of a month.
C29_Witness ==
    /\ ExpenseCall
    /\ call.keyword = "Electricity" /\ call.location = Txt("?!") /\ call.month = Num(0)
    /\ db.TMAS = LedgerStore.TMAS /\ db.AMAS = LedgerStore.AMAS
    /\ ret = Num(190000)
    /\ get_expense_amount("Electricity", Txt("Pune"), None).value = 0
    /\ get_expense_amount("Electricity", None, Num(8)).value = 100000

----------------------------------------------------------------------------
(* Claims about the aged-receivables answer.                               *)

\* The receivable records, each with its account, that are dated strictly
\* before today - 60 days and whose balance passes the flag of the question.
OlderThanSixty ==
    SelectSeq(JoinRows(db.RMAS, db.AMAS, "ACOD", "ACOD"), LAMBDA p :
        /\ StrictlyOlder(p.l, 60)
        /\ FlagOfQuestion \/ SafeFloat(Col(p.l, "BALANCE")) > 0)

\* The bullet line of a record.
BulletOf(p) ==
    "- " \o PyStr(Col(p.r, "ANAM")) \o " (" \o LocationOf(Col(p.r, "CITY"), Col(p.r, "STATE"))
         \o ") on " \o IsoFormat(ParsedDate(p.l)) \o ": "
         \o FormatCurrency(SafeFloat(Col(p.l, "BALANCE")))

\* C30: whatever numbers the question holds, the aged-receivables answer is
\* about 60 days and 10 entries: it has a bullet line for each of the records
\* older than today - 60 days, up to 10, every bullet is the line of such a
\* record, and without such a record it is the message that none was found.
C30_SixtyDaysTenEntries ==
    (Asked /\ call.handler = "aged_receivables" /\ Conforming) =>
        /\ templates = <<"get_outstanding_over_days">>
        /\ IF OlderThanSixty = <<>>
           THEN ret = Txt("No outstanding payments older than 60 days were found.")
           ELSE /\ StartsWith(ret.text, "Outstanding payments older than 60 days (")
                /\ Len(Bullets(ret.text)) = Min(10, Len(OlderThanSixty))
                /\ \A i \in 1..Len(Bullets(ret.text)) :
                       \E k \in 1..Len(OlderThanSixty) :
                           Bullets(ret.text)[i] = BulletOf(OlderThanSixty[k])

\* C30's case: a question that names 5 entries and 90 days, asked over
\* twelve records of which eleven are older than 60 days; ten bullets, the
\* largest balance first, the record dated on the cutoff day in none.
C30_Witness ==
    /\ Asked
    /\ call.question = "Outstanding over 60 days, top 5 over 90 days since 2023"
    /\ db = ArchiveStore
    /\ Len(OlderThanSixty) = 11
    /\ Len(Bullets(ret.text)) = 10
    /\ Bullets(ret.text)[1] = "- Acme Traders (Patna, Bihar) on 2023-06-30: "
                                 \o CURRENCY_PREFIX \o "1,200.00"
    /\ \A i \in 1..10 : ~Contains(Bullets(ret.text)[i], "2024-01-01")

====
